---------------------------- MODULE Spec2Model ----------------------------
(***************************************************************************)
(* A model of the ACE playbook engine (src/ace): the playbook store with   *)
(* its vector index (playbook_manager.py) and the Curator's delta          *)
(* computation (curator_agent.py).                                         *)
(*                                                                         *)
(* Conventions.                                                            *)
(*  - A text (bullet content, query, insight field) is a sequence of       *)
(*    one-character strings, so that the string operations of the source   *)
(*    (lower, strip, split, `in`, len, f-strings) are computed, not        *)
(*    assumed.                                                             *)
(*  - An embedding is a pair of integers; a normalized vector is the       *)
(*    rational vector num/den, kept exact (no floating point rounding).    *)
(*  - Positions in the bullet list and the index are 0-based as in the     *)
(*    source; the TLA+ sequences that hold them are 1-based.               *)
(*  - A bullet id (uuid4 prefix in the source) is a natural number: one    *)
(*    never drawn before, or one a stored bullet already has (a repeated   *)
(*    prefix).                                                             *)
(*  - An operator defined directly above another one and marked "variant"  *)
(*    is that operator with a plausible mistake; the model does not use it. *)
(***************************************************************************)
EXTENDS Integers, Sequences, FiniteSets, TLC

VARIABLES
    bullets,             \* PlaybookManager.bullets: the list of Bullet records
    bullet_id_to_index,  \* PlaybookManager.bullet_id_to_index: id -> position
    index,               \* PlaybookManager.index: the vectors of the FAISS index
    disk,                \* the three persisted files of the playbook directory
    now,                 \* the wall clock read by datetime.now()
    nextId,              \* the supply of fresh uuid4 prefixes
    faults,              \* failures of the provider and of file writes so far
    ret,                 \* the last call that can change the store, and its result
    obs,                 \* the read-only call whose result the caller holds
    pc,                  \* interleaved calls: the step each caller is at
    loc,                 \* interleaved calls: each caller's local variables
    overlap,             \* interleaved calls: a step ran while another call was open
    run                  \* the merge_delta or process_feedback call in progress

vars == <<bullets, bullet_id_to_index, index, disk, now, nextId, faults, ret, obs,
          pc, loc, overlap, run>>
store == <<bullets, bullet_id_to_index, index>>
callers == <<pc, loc, overlap>>

---------------------------------------------------------------------------
(* Bounds of the model.                                                    *)

MaxBullets == 3      \* the bullet list never grows beyond this
MaxInitBullets == 3  \* bullets in the metadata file found at construction
MaxInitCount == 1    \* largest counter value in the metadata file found
MaxTime == 2         \* clock readings that stamp a bullet
MaxTopK == 3         \* largest top_k passed to a search
MaxFaults == 1       \* provider and file-write failures in one run
MaxCollisions == 1   \* bullets in the list whose id another bullet already has
MaxRunTime == 4      \* clock readings that stamp a bullet, with a delta being merged
MaxRuns == 1         \* merge_delta and process_feedback calls in one run
MaxTasks == 2        \* background tasks the /feedback endpoint creates
MaxOps == 2          \* operations in a delta handed to merge_delta
MaxMerges == 2       \* merge_delta calls one after the other

---------------------------------------------------------------------------
(* Python string operations on texts.                                      *)

Min(a, b) == IF a <= b THEN a ELSE b
Max(a, b) == IF a >= b THEN a ELSE b

UpperCase == <<"A","B","C","D","E","F","G","H","I","J","K","L","M",
               "N","O","P","Q","R","S","T","U","V","W","X","Y","Z">>
LowerCase == <<"a","b","c","d","e","f","g","h","i","j","k","l","m",
               "n","o","p","q","r","s","t","u","v","w","x","y","z">>

\* str.lower() on one character
LowerChar(c) ==
    IF \E i \in 1..26 : UpperCase[i] = c
    THEN LowerCase[CHOOSE i \in 1..26 : UpperCase[i] = c]
    ELSE c

\* str.lower()
Lower(s) == [i \in 1..Len(s) |-> LowerChar(s[i])]

\* `sub in s`
Contains(s, sub) ==
    \E i \in 1..(Len(s) - Len(sub) + 1) : SubSeq(s, i, i + Len(sub) - 1) = sub

\* s.startswith(p)
StartsWith(s, p) == Len(s) >= Len(p) /\ SubSeq(s, 1, Len(p)) = p

Whitespace == {" ", "\n", "\t", "\r"}

\* str.strip()
Strip(s) ==
    LET keep == {i \in 1..Len(s) : s[i] \notin Whitespace}
    IN  IF keep = {} THEN <<>>
        ELSE SubSeq(s, CHOOSE i \in keep : \A j \in keep : i <= j,
                       CHOOSE i \in keep : \A j \in keep : i >= j)

\* s.split('\n')
RECURSIVE SplitLines(_)
SplitLines(s) ==
    LET nl == {i \in 1..Len(s) : s[i] = "\n"}
    IN  IF nl = {} THEN <<s>>
        ELSE LET k == CHOOSE i \in nl : \A j \in nl : i <= j
             IN  <<SubSeq(s, 1, k - 1)>> \o SplitLines(SubSeq(s, k + 1, Len(s)))

\* '\n'.join(lines)
RECURSIVE JoinLines(_)
JoinLines(lines) ==
    IF lines = <<>> THEN <<>>
    ELSE IF Len(lines) = 1 THEN lines[1]
    ELSE lines[1] \o <<"\n">> \o JoinLines(Tail(lines))

Digits == <<"0","1","2","3","4","5","6","7","8","9">>

\* str(n) for a natural number n
RECURSIVE Str(_)
Str(n) == IF n < 10 THEN <<Digits[n + 1]>> ELSE Str(n \div 10) \o <<Digits[(n % 10) + 1]>>

---------------------------------------------------------------------------
(* The embedding provider and vector arithmetic.                           *)

ZeroVec == <<0, 0>>

Dot(v, w) == v[1] * w[1] + v[2] * w[2]

Abs(x) == IF x < 0 THEN 0 - x ELSE x

\* np.linalg.norm: the provider's vectors have integer norms
Norm(v) ==
    IF v[1] = 0 THEN Abs(v[2])
    ELSE IF v[2] = 0 THEN Abs(v[1])
    ELSE CHOOSE n \in Max(Abs(v[1]), Abs(v[2]))..(Abs(v[1]) + Abs(v[2])) : n * n = Dot(v, v)

\* The embedding provider (embed_query), a black box: a fixed function of
\* the text (here of its first character) whose vectors are not unit vectors.
EmbedQuery(text) ==
    IF text = <<>> THEN <<5, 0>>
    ELSE IF text[1] = "c" THEN <<3, 4>>
    ELSE IF text[1] = "v" THEN <<8, 6>>
    ELSE IF text[1] = "e" THEN <<0, 2>>
    ELSE <<5, 0>>

\* _get_embedding: the provider's vector, or the zero vector when it throws
GetEmbedding(text, ok) == IF ok THEN EmbedQuery(text) ELSE ZeroVec

\* _normalize_embedding: embedding / norm when norm > 0, as an exact rational
NormalizeEmbedding(e) ==
    LET norm == Norm(e)
    IN  IF norm > 0 THEN [num |-> e, den |-> norm] ELSE [num |-> e, den |-> 1]

\* inner product of the query q with the stored vector v, as the pair
\* <<numerator, denominator>> over the common factor q.den
ScoreGE(q, v, w) == Dot(q.num, v.num) * w.den >= Dot(q.num, w.num) * v.den

---------------------------------------------------------------------------
(* Texts the model draws its inputs from.                                  *)

TCheckUnits == <<"c","h","e","c","k"," ","u","n","i","t","s">>
TVerifyUnit == <<"v","e","r","i","f","y"," ","u","n","i","t">>
TExplainWhy == <<"e","x","p","l","a","i","n"," ","w","h","y">>
TSolveX == <<"s","o","l","v","e"," ","x">>

\* contents given to add_bullet
Contents == {TCheckUnits, TExplainWhy}
\* queries given to retrieve_relevant
Queries == {TExplainWhy, TSolveX}
\* sections given to add_bullet
Sections == {"General"}
\* similarity thresholds given to deduplicate, in hundredths (0.9 is the default)
Thresholds == {70, 90}

---------------------------------------------------------------------------
(* Bullet and the persisted files.                                         *)

\* Bullet(id, content, section, created_at) and __post_init__
\* (variant: a new bullet starts with one helpful vote)
BulletWithVote(id, content, section, t) ==
    [id |-> id, helpful |-> 1, harmful |-> 0, content |-> content,
     section |-> section, created_at |-> t, last_used |-> t]
Bullet(id, content, section, t) ==
    [id |-> id, helpful |-> 0, harmful |-> 0, content |-> content,
     section |-> section, created_at |-> t, last_used |-> t]

\* Bullet.to_markdown
ToMarkdown(b) == <<b.id, b.helpful, b.harmful, b.content>>

\* the sections of a bullet list in order of first appearance, and the
\* markdown rendering grouped by section (save_playbook)
SectionOrder(bs) ==
    LET first == {i \in 1..Len(bs) : \A j \in 1..(i - 1) : bs[j].section # bs[i].section}
        pick[k \in 0..Len(bs)] ==
            IF k = 0 THEN <<>>
            ELSE IF k \in first THEN Append(pick[k - 1], bs[k].section) ELSE pick[k - 1]
    IN  pick[Len(bs)]

InSection(bs, s) ==
    LET pick[k \in 0..Len(bs)] ==
            IF k = 0 THEN <<>>
            ELSE IF bs[k].section = s THEN Append(pick[k - 1], ToMarkdown(bs[k]))
                 ELSE pick[k - 1]
    IN  pick[Len(bs)]

RenderPlaybook(bs, t) ==
    LET order == SectionOrder(bs)
    IN  [last_updated |-> t, total_bullets |-> Len(bs),
         sections |-> [k \in 1..Len(order) |->
                          [section |-> order[k], bullets |-> InSection(bs, order[k])]]]

NoMetadata == [exists |-> FALSE, bullets |-> <<>>, last_updated |-> 0, total_bullets |-> 0]
NoPlaybook == [exists |-> FALSE, last_updated |-> 0, total_bullets |-> 0, sections |-> <<>>]
NoEmbeddings == [exists |-> FALSE, vectors |-> <<>>]
EmptyDisk == [metadata_file |-> NoMetadata, playbook_file |-> NoPlaybook,
              embeddings_file |-> NoEmbeddings]

\* how a save_playbook call ends: all three files written, the first open
\* raising, or faiss.write_index raising after the two text files are written
SaveOutcomes == {"ok", "fail_metadata", "fail_index"}

\* save_playbook: metadata.json, then playbook.md, then embeddings.faiss
SavePlaybook(bs, idx, d, t, outcome) ==
    LET meta == [exists |-> TRUE, bullets |-> bs, last_updated |-> t,
                 total_bullets |-> Len(bs)]
        md == [exists |-> TRUE] @@ RenderPlaybook(bs, t)
        emb == [exists |-> TRUE, vectors |-> idx]
    IN  IF outcome = "fail_metadata" THEN d
        ELSE IF outcome = "fail_index"
             THEN [d EXCEPT !.metadata_file = meta, !.playbook_file = md]
        ELSE [metadata_file |-> meta, playbook_file |-> md, embeddings_file |-> emb]

\* the id -> position map built by enumerate(bullets): a later bullet with
\* the same id overwrites an earlier one
IdMap(bs) ==
    [id \in {bs[i].id : i \in 1..Len(bs)} |->
        (CHOOSE i \in 1..Len(bs) :
            bs[i].id = id /\ \A j \in 1..Len(bs) : bs[j].id = id => j <= i) - 1]

\* _rebuild_index: a new index and map from the current bullets; failed is
\* the set of positions whose embedding call throws
\* (variant: the loop left at the first embedding call that throws)
RebuildUntilFailure(bs, failed) ==
    LET n == IF failed = {} THEN Len(bs)
             ELSE CHOOSE m \in failed : \A x \in failed : m <= x
    IN  [bullet_id_to_index |-> IdMap(bs),
         index |-> [i \in 1..n |-> NormalizeEmbedding(GetEmbedding(bs[i].content, TRUE))]]
RebuildIndex(bs, failed) ==
    [bullet_id_to_index |-> IdMap(bs),
     index |-> [i \in 1..Len(bs) |->
                   NormalizeEmbedding(GetEmbedding(bs[i].content, (i - 1) \notin failed))]]

\* load_playbook: the store after construction from the files on disk;
\* readOk says whether faiss.read_index succeeds
LoadPlaybook(d, readOk, failed) ==
    IF ~d.metadata_file.exists
    THEN [bullets |-> <<>>, bullet_id_to_index |-> <<>>, index |-> <<>>]
    ELSE LET bs == d.metadata_file.bullets
         IN  IF d.embeddings_file.exists /\ readOk
             THEN [bullets |-> bs, bullet_id_to_index |-> IdMap(bs),
                   index |-> d.embeddings_file.vectors]
             ELSE [bullets |-> bs] @@ RebuildIndex(bs, failed)

---------------------------------------------------------------------------
(* The state after construction: PlaybookManager.__init__ loads what an    *)
(* earlier run saved.                                                      *)

\* bullets an earlier run can have saved: one voted harmful, one voted helpful
InitEntries ==
    {[content |-> TCheckUnits, section |-> "General", helpful |-> 0,
      harmful |-> MaxInitCount],
     [content |-> TVerifyUnit, section |-> "Anti-Patterns", helpful |-> MaxInitCount,
      harmful |-> 0]}

InitBullet(id) ==
    {[Bullet(id, e.content, e.section, 0) EXCEPT !.helpful = e.helpful,
                                                  !.harmful = e.harmful] :
        e \in InitEntries}

InitBulletLists ==
    UNION {{bs \in [1..k -> UNION {InitBullet(id) : id \in 1..k}] :
               \A i \in 1..k : bs[i].id = i} : k \in 0..MaxInitBullets}

\* the files an earlier run left: none, or those of a completed save_playbook
SavedDisks ==
    {EmptyDisk} \cup
    {SavePlaybook(bs, RebuildIndex(bs, {}).index, EmptyDisk, 0, "ok") :
        bs \in InitBulletLists \ {<<>>}}

\* what a call that can change the store reports: the operation, its
\* arguments, whether it raised, the flag, id or count it returned, and for
\* the checks the bullets before the call (base) and the length n of the
\* unbroken run of equal update_counters calls it ends
NoRet ==
    [op |-> "none", raised |-> FALSE, flag |-> FALSE, id |-> 0, helpful |-> FALSE,
     count |-> 0, calls |-> 0, n |-> 0, base |-> <<>>]

\* what a read-only call reports: the operation, its arguments (a query by
\* its normalized vector qvec), the embedding calls it made, the positions
\* the index search gave and the result
NoInsight ==
    [error_identification |-> <<>>, correct_approach |-> <<>>, key_insight |-> <<>>,
     confidence |-> 0]
NoObs ==
    [op |-> "none", flag |-> FALSE, id |-> 0, result |-> <<>>, calls |-> 0,
     top_k |-> 0, qvec |-> [num |-> ZeroVec, den |-> 1], neighbours |-> <<>>,
     insight |-> NoInsight, delta |-> [operations |-> <<>>, total_operations |-> 0]]

\* the callers of the interleaved runs and the local variables of a call
Procs == {1, 2}
NoLocal ==
    [id |-> 0, helpful |-> FALSE, bullet |-> Bullet(0, <<>>, "General", 0), pos |-> 0,
     removed |-> {}]

\* FeedbackData.rating is None (feedback_system.py, line 23)
NoRating == 0

\* of a process_feedback call in progress: the feedback id, what the two
\* stores found for it, the record and the used bullets of the chat turn, the insight the Reflector gave (if any), the steps
\* taken so far, the place in used_bullets, the bullets before the usage
\* step, whether that step caught an exception, the result returned,
\* whether the call raised, how the write of the processing log file
\* ended, the entries of self.processing_log (logged), and the results
\* the caller's loop has collected
NoFeedbackRun ==
    [feedback_id |-> "none", found |-> "none",
     feedback |-> [feedback_type |-> "none", rating |-> NoRating],
     used_bullets |-> <<>>, has_insight |-> FALSE, insight |-> NoInsight,
     steps |-> <<>>, u |-> 0, usage_base |-> <<>>, usage_caught |-> FALSE,
     result |-> [success |-> FALSE], raised |-> FALSE, processing_log |-> "none",
     logged |-> <<>>, results |-> <<>>]

\* no merge_delta or process_feedback call in progress. Of a call in
\* progress: the entry point, the step it is at, the delta, the operation k
\* and the unit increments done of it, the store calls issued so far, the
\* bullets before the call, and the value returned; history holds the
\* delta and the return value of the merge_delta calls that went before,
\* updates the files of the updates directory. Of the ACEWorker and the
\* FeedbackManager: the ids of the records in the feedback store, where
\* the loop of start_worker is, the records its last batch read, its
\* processed_feedback set, and the ids it has handed to process_feedback.
\* Of the event loop of the server: the feedback ids of the tasks created
\* by asyncio.create_task, in the order of their creation
NoRun ==
    [pc |-> "idle", entry |-> "none", runs |-> 0,
     delta |-> [operations |-> <<>>, total_operations |-> 0],
     k |-> 0, unit |-> 0, calls |-> <<>>, base |-> <<>>, success |-> FALSE,
     delta_log |-> "none", history |-> <<>>, updates |-> {},
     feedback_store |-> {}, worker_pc |-> "batch", all_feedback |-> {},
     processed_feedback |-> {}, submitted |-> <<>>, tasks |-> <<>>]
        @@ NoFeedbackRun

Init ==
    /\ \E d \in SavedDisks :
          LET loaded == LoadPlaybook(d, TRUE, {})
          IN  /\ disk = d
              /\ bullets = loaded.bullets
              /\ bullet_id_to_index = loaded.bullet_id_to_index
              /\ index = loaded.index
              /\ nextId = Len(loaded.bullets) + 1
    /\ now = 1
    /\ faults = 0
    /\ ret = NoRet
    /\ obs = NoObs
    /\ pc = [p \in Procs |-> "idle"]
    /\ loc = [p \in Procs |-> NoLocal]
    /\ overlap = FALSE
    /\ run = NoRun

---------------------------------------------------------------------------
(* PlaybookManager: the operations, each call run to completion.           *)

\* the last clock reading that stamps a bullet
TimeLimit == IF run.pc = "idle" THEN MaxTime ELSE MaxRunTime

\* the failures a call meets: of its embedding call and of its save
Cost(embOk, outcome) == (IF embOk THEN 0 ELSE 1) + (IF outcome = "ok" THEN 0 ELSE 1)

\* the position the id map gets for a bullet just appended (line 113)
\* (variant: off by one)
LengthAsPosition(bs) == Len(bs)
AppendedPosition(bs) == Len(bs) - 1

\* the ids of the bullets in the list
HeldIds(bs) == {bs[i].id : i \in 1..Len(bs)}

\* str(uuid.uuid4())[:8] (line 100): a random 32-bit prefix, which is either
\* new or one a stored bullet already has; nothing in add_bullet looks
Uuid4Prefixes ==
    {nextId} \cup
    (IF Len(bullets) - Cardinality(HeldIds(bullets)) < MaxCollisions
     THEN HeldIds(bullets) ELSE {})

\* d[key] = value on a dict
SetItem(d, key, value) == (key :> value) @@ d

\* add_bullet(content, section), id being the prefix drawn
AddBullet(id, content, section, embOk, outcome) ==
    /\ obs.op = "none"
    /\ Len(bullets) < MaxBullets
    /\ faults' = faults + Cost(embOk, outcome)
    /\ now <= TimeLimit
    /\ LET bullet == Bullet(id, content, section, now)
           bs == Append(bullets, bullet)
           idx == Append(index, NormalizeEmbedding(GetEmbedding(content, embOk)))
       IN  /\ bullets' = bs
           /\ bullet_id_to_index' = SetItem(bullet_id_to_index, id, AppendedPosition(bs))
           /\ index' = idx
           /\ disk' = SavePlaybook(bs, idx, disk, now, outcome)
           /\ ret' = [op |-> "add_bullet", id |-> id, raised |-> outcome # "ok",
                      calls |-> 1, base |-> bullets] @@ NoRet
    /\ nextId' = IF id = nextId THEN nextId + 1 ELSE nextId
    /\ now' = now + 1
    /\ UNCHANGED <<obs, callers>>

\* the counter update of lines 134-139 on one bullet
\* (variant: the bullet stamped as created anew)
Restamp(b, helpful, t) ==
    IF helpful THEN [b EXCEPT !.helpful = @ + 1, !.last_used = t, !.created_at = t]
    ELSE [b EXCEPT !.harmful = @ + 1, !.last_used = t, !.created_at = t]
\* (variant: both counters raised)
IncrementBoth(b, helpful, t) ==
    [b EXCEPT !.helpful = @ + 1, !.harmful = @ + 1, !.last_used = t]
Increment(b, helpful, t) ==
    IF helpful THEN [b EXCEPT !.helpful = @ + 1, !.last_used = t]
    ELSE [b EXCEPT !.harmful = @ + 1, !.last_used = t]

\* the flag update_counters returns for an id it does not know (line 129)
\* (variant: success reported)
ReturnsTrue == TRUE
NotFound == FALSE

\* update_counters(bullet_id, helpful)
UpdateCounters(id, helpful, outcome) ==
    /\ obs.op = "none"
    /\ IF id \notin DOMAIN bullet_id_to_index
       THEN /\ ret' = [op |-> "update_counters", id |-> id, helpful |-> helpful,
                       flag |-> NotFound] @@ NoRet
            /\ UNCHANGED <<bullets, disk, now, faults>>
       ELSE LET pos == bullet_id_to_index[id]
            IN  IF pos + 1 > Len(bullets)
                THEN \* self.bullets[index] raises IndexError
                     /\ ret' = [op |-> "update_counters", id |-> id,
                                helpful |-> helpful, raised |-> TRUE] @@ NoRet
                     /\ UNCHANGED <<bullets, disk, now, faults>>
                ELSE LET bs == [bullets EXCEPT ![pos + 1] = Increment(@, helpful, now)]
                         \* the calls made so far in an unbroken run of this call
                         again == /\ ret.op = "update_counters"
                                  /\ ret.n > 0
                                  /\ ret.id = id
                                  /\ ret.helpful = helpful
                     IN  /\ now <= TimeLimit
                         /\ faults' = faults + Cost(TRUE, outcome)
                         /\ bullets' = bs
                         /\ disk' = SavePlaybook(bs, index, disk, now, outcome)
                         /\ now' = now + 1
                         /\ ret' = [op |-> "update_counters", id |-> id,
                                    helpful |-> helpful, flag |-> outcome = "ok",
                                    raised |-> outcome # "ok",
                                    n |-> IF again THEN ret.n + 1 ELSE 1,
                                    base |-> IF again THEN ret.base ELSE bullets]
                                   @@ NoRet
    /\ UNCHANGED <<bullet_id_to_index, index, nextId, obs, callers>>

\* bullets[i] with Python's indexing: a negative i counts from the end
PyIndex(bs, i) == IF i >= 0 THEN bs[i + 1] ELSE bs[Len(bs) + i + 1]

\* IndexFlatIP.search(q, k): the results the library may return. The k
\* best positions by inner product in descending order, ties in any order,
\* padded with -1 when the index holds fewer than k vectors.
FaissSearch(idx, q, k) ==
    LET n == Len(idx)
        m == Min(k, n)
        best == {s \in [1..m -> 0..(n - 1)] :
                    /\ \A a, b \in 1..m : a < b => s[a] # s[b]
                    /\ \A a, b \in 1..m : a < b => ScoreGE(q, idx[s[a] + 1], idx[s[b] + 1])
                    /\ \A a \in 1..m : \A x \in 0..(n - 1) :
                          (\A b \in 1..m : s[b] # x) => ScoreGE(q, idx[s[a] + 1], idx[x + 1])}
    IN  {s \o [i \in 1..(k - m) |-> 0 - 1] : s \in best}

\* the filter of line 168: only bullets at least as helpful as harmful
\* (variant: harmful not looked at)
RelevantAlways(b) == b.helpful >= 0
Relevant(b) == b.helpful >= b.harmful

\* the number of neighbours asked of the index (line 160)
\* (variant: the whole index searched, the result cut afterwards)
SearchAll(bs, top_k) == Len(bs)
SearchK(bs, top_k) == Min(top_k, Len(bs))

\* lines 163-175 of retrieve_relevant: the bullets returned for the
\* positions the index search gave
\* (variant: only bullets more helpful than harmful kept)
StrictlyHelpfulBullets(bs, indices, top_k) ==
    LET pick[k \in 0..Len(indices)] ==
            IF k = 0 THEN <<>>
            ELSE IF indices[k] < Len(bs)
                    /\ PyIndex(bs, indices[k]).helpful > PyIndex(bs, indices[k]).harmful
                 THEN Append(pick[k - 1], PyIndex(bs, indices[k]))
                 ELSE pick[k - 1]
        found == pick[Len(indices)]
    IN  SubSeq(found, 1, Min(top_k, Len(found)))
RelevantBullets(bs, indices, top_k) ==
    LET pick[k \in 0..Len(indices)] ==
            IF k = 0 THEN <<>>
            ELSE IF indices[k] < Len(bs) /\ Relevant(PyIndex(bs, indices[k]))
                 THEN Append(pick[k - 1], PyIndex(bs, indices[k]))
                 ELSE pick[k - 1]
        found == pick[Len(indices)]
    IN  SubSeq(found, 1, Min(top_k, Len(found)))

\* `not self.bullets` (line 148) (variant: the test left out)
NeverEmpty(bs) == FALSE
NoBullets(bs) == bs = <<>>

\* retrieve_relevant(query, top_k)
RetrieveRelevant(query, top_k, embOk) ==
    /\ obs.op = "none"
    /\ IF NoBullets(bullets)
       THEN obs' = [op |-> "retrieve_relevant", top_k |-> top_k] @@ NoObs
       ELSE LET q == NormalizeEmbedding(GetEmbedding(query, embOk))
            IN  \E indices \in FaissSearch(index, q, SearchK(bullets, top_k)) :
                   obs' = [op |-> "retrieve_relevant", top_k |-> top_k, calls |-> 1,
                           qvec |-> q, neighbours |-> indices,
                           result |-> RelevantBullets(bullets, indices, top_k)]
                          @@ NoObs
    /\ UNCHANGED <<store, disk, now, nextId, faults, ret, callers>>

\* get_bullet(bullet_id)
\* (variant: the bullet looked up is stamped as used)
GetAndStamp(id) ==
    /\ obs.op = "none"
    /\ obs' = [op |-> "get_bullet", id |-> id,
               flag |-> id \in DOMAIN bullet_id_to_index] @@ NoObs
    /\ bullets' = IF id \in DOMAIN bullet_id_to_index
                  THEN [bullets EXCEPT ![bullet_id_to_index[id] + 1].last_used = now + 1]
                  ELSE bullets
    /\ UNCHANGED <<bullet_id_to_index, index, disk, now, nextId, faults, ret, callers>>
GetBullet(id) ==
    /\ obs.op = "none"
    /\ obs' = [op |-> "get_bullet", id |-> id,
               flag |-> id \in DOMAIN bullet_id_to_index,
               result |-> IF id \in DOMAIN bullet_id_to_index
                          THEN <<bullets[bullet_id_to_index[id] + 1]>>
                          ELSE <<>>] @@ NoObs
    /\ UNCHANGED <<store, disk, now, nextId, faults, ret, callers>>

\* get_stats(): the counts by section, the vote totals, the helpful ratio
\* total_helpful / max(total_helpful + total_harmful, 1) as a fraction,
\* and the bullets created in the last 7 days. old says whether the
\* bullets an earlier run created are more than 7 days old
GetStats(old) ==
    LET sum[k \in 0..Len(bullets)] ==
            IF k = 0 THEN [helpful |-> 0, harmful |-> 0]
            ELSE [helpful |-> sum[k - 1].helpful + bullets[k].helpful,
                  harmful |-> sum[k - 1].harmful + bullets[k].harmful]
        total == sum[Len(bullets)]
        of(section) == Cardinality({k \in 1..Len(bullets) : bullets[k].section = section})
    IN  /\ obs.op = "none"
        /\ obs' = [op |-> "get_stats",
                   result |->
                       IF NoBullets(bullets)
                       THEN <<[total_bullets |-> 0, sections |-> <<>>,
                               helpful_ratio |-> <<0, 1>>, recent_bullets |-> 0]>>
                       ELSE <<[total_bullets |-> Len(bullets),
                               sections |-> [s \in {bullets[k].section :
                                                       k \in 1..Len(bullets)} |-> of(s)],
                               helpful_ratio |->
                                   <<total.helpful, Max(total.helpful + total.harmful, 1)>>,
                               recent_bullets |->
                                   Cardinality({k \in 1..Len(bullets) :
                                                   bullets[k].created_at > 0 \/ ~old}),
                               total_helpful |-> total.helpful,
                               total_harmful |-> total.harmful]>>] @@ NoObs
        /\ UNCHANGED <<store, disk, now, nextId, faults, ret, callers>>

\* ratio_i >= ratio_j of lines 211-214: helpful / max(harmful, 1)
\* (variant: the bullet with the lower ratio kept)
RatioLE(bi, bj) == bi.helpful * Max(bj.harmful, 1) <= bj.helpful * Max(bi.harmful, 1)
RatioGE(bi, bj) == bi.helpful * Max(bj.harmful, 1) >= bj.helpful * Max(bi.harmful, 1)

\* lines 199-209: the cosine similarity of the two contents' embeddings
\* reaches the threshold (thr in hundredths); okI, okJ say whether each
\* embedding call succeeds
Similar(bi, bj, thr, okI, okJ) ==
    LET ei == GetEmbedding(bi.content, okI)
        ej == GetEmbedding(bj.content, okJ)
        ni == Norm(ei)
        nj == Norm(ej)
    IN  ni > 0 /\ nj > 0 /\ Dot(ei, ej) * 100 >= thr * ni * nj

\* the winner of a merge gets both bullets' counters (lines 216-217, 221-222)
\* (variant: the harmful votes of the loser dropped)
AbsorbHelpfulOnly(winner, loser) == [winner EXCEPT !.helpful = @ + loser.helpful]
\* (variant: the winner takes the loser's counters in place of its own)
TakeOver(winner, loser) ==
    [winner EXCEPT !.helpful = loser.helpful, !.harmful = loser.harmful]
Absorb(winner, loser) ==
    [winner EXCEPT !.helpful = @ + loser.helpful, !.harmful = @ + loser.harmful]

\* the inner loop of deduplicate (lines 190-224) for bullet i from j on;
\* st holds the bullets and the positions marked for removal, failed the
\* pairs one of whose embedding calls throws
RECURSIVE DedupInner(_, _, _, _, _)
DedupInner(st, i, j, thr, failed) ==
    IF j > Len(st.bs) - 1 THEN st
    ELSE IF j \in st.removed THEN DedupInner(st, i, j + 1, thr, failed)
    ELSE LET bi == st.bs[i + 1]
             bj == st.bs[j + 1]
         IN  IF ~Similar(bi, bj, thr, <<i, j>> \notin failed, TRUE)
             THEN DedupInner(st, i, j + 1, thr, failed)
             ELSE IF RatioGE(bi, bj)
             THEN DedupInner([bs |-> [st.bs EXCEPT ![i + 1] = Absorb(bi, bj)],
                              removed |-> st.removed \cup {j}], i, j + 1, thr, failed)
             ELSE [bs |-> [st.bs EXCEPT ![j + 1] = Absorb(bj, bi)],
                   removed |-> st.removed \cup {i}]

\* the outer loop of deduplicate (lines 186-188)
RECURSIVE DedupOuter(_, _, _, _)
DedupOuter(st, i, thr, failed) ==
    IF i > Len(st.bs) - 1 THEN st
    ELSE IF i \in st.removed THEN DedupOuter(st, i + 1, thr, failed)
    ELSE DedupOuter(DedupInner(st, i, i + 1, thr, failed), i + 1, thr, failed)

\* line 228: the bullets whose position is not marked for removal
Survivors(bs, removed) ==
    LET pick[k \in 0..Len(bs)] ==
            IF k = 0 THEN <<>>
            ELSE IF (k - 1) \in removed THEN pick[k - 1] ELSE Append(pick[k - 1], bs[k])
    IN  pick[Len(bs)]

\* the pairs i < j of positions the loops compare
Pairs(n) == {p \in (0..(n - 1)) \X (0..(n - 1)) : p[1] < p[2]}

\* deduplicate(similarity_threshold)
Deduplicate(thr, failed, lost, outcome) ==
    /\ obs.op = "none"
    /\ IF Len(bullets) < 2
       THEN /\ failed = {} /\ lost = {} /\ outcome = "ok"
            /\ ret' = [op |-> "deduplicate", base |-> bullets] @@ NoRet
            /\ UNCHANGED <<bullets, bullet_id_to_index, index, disk, now, faults>>
       ELSE LET st == DedupOuter([bs |-> bullets, removed |-> {}], 0, thr, failed)
                kept == Survivors(st.bs, st.removed)
            IN  IF st.removed = {}
                THEN /\ lost = {} /\ outcome = "ok"
                     /\ faults' = faults + Cardinality(failed)
                     /\ ret' = [op |-> "deduplicate", base |-> bullets] @@ NoRet
                     /\ UNCHANGED <<bullets, bullet_id_to_index, index, disk, now>>
                ELSE LET re == RebuildIndex(kept, lost)
                     IN  /\ now <= MaxTime
                         /\ lost \subseteq 0..(Len(kept) - 1)
                         /\ faults' = faults + Cardinality(failed)
                                          + Cardinality(lost) + Cost(TRUE, outcome)
                         /\ bullets' = kept
                         /\ bullet_id_to_index' = re.bullet_id_to_index
                         /\ index' = re.index
                         /\ disk' = SavePlaybook(kept, re.index, disk, now, outcome)
                         /\ now' = now + 1
                         /\ ret' = [op |-> "deduplicate", base |-> bullets,
                                    count |-> Cardinality(st.removed),
                                    raised |-> outcome # "ok"] @@ NoRet
    /\ UNCHANGED <<nextId, obs, callers>>

---------------------------------------------------------------------------
(* CuratorAgent: the delta computation.                                    *)

AcceptConfidence == 50   \* insight.confidence > 0.5, in hundredths
HighConfidence == 70     \* insight.confidence > 0.7, in hundredths
FindTopK == 5            \* retrieve_relevant(content, top_k=5)
FindKeep == 3            \* relevant_bullets[:3]
MinContentLen == 10      \* len(formatted) < 10
NegativeConfidence == 60 \* insight.confidence > 0.6 (process_negative_feedback)

TechTerms ==
    {<<"H","u","m","a","n","M","e","s","s","a","g","e">>,
     <<"A","I","M","e","s","s","a","g","e">>,
     <<"{">>, <<"}">>,
     <<"a","d","d","i","t","i","o","n","a","l","_","k","w","a","r","g","s">>,
     <<"r","e","s","p","o","n","s","e","_","m","e","t","a","d","a","t","a">>}

NoError == <<"n","o"," ","e","r","r","o","r">>

\* insight.error_identification and "no error" not in it, lowered
IsErrorCase(insight) ==
    /\ insight.error_identification # <<>>
    /\ ~Contains(Lower(insight.error_identification), NoError)

\* _apply_structured_formatting
ApplyStructuredFormatting(content) ==
    LET numbered == \E d \in {"1", "2", "3", "4", "5"} : StartsWith(content, <<d, ".">>)
        lines == SplitLines(content)
        pick[k \in 0..Len(lines)] ==
            IF k = 0 THEN <<>>
            ELSE IF Strip(lines[k]) # <<>>
                 THEN Append(pick[k - 1], Str(k) \o <<".", " ">> \o Strip(lines[k]))
                 ELSE pick[k - 1]
    IN  IF Contains(content, <<"\n">>) /\ ~numbered /\ Len(lines) > 1
        THEN Strip(JoinLines(pick[Len(lines)]))
        ELSE Strip(content)

\* _create_fallback_insight
CreateFallbackInsight(insight) ==
    IF IsErrorCase(insight)
    THEN <<"W","h","e","n"," ">> \o Lower(insight.error_identification)
         \o <<","," ","u","s","e"," ","t","h","i","s"," ","a","p","p","r","o","a","c","h",":"," ">>
         \o insight.correct_approach
    ELSE <<"S","u","c","c","e","s","s"," ","p","a","t","t","e","r","n",":"," ">>
         \o insight.correct_approach

\* _clean_and_format_content (and _format_bullet_content, which only logs)
CleanAndFormatContent(content, insight) ==
    LET cleaned ==
            IF \E term \in TechTerms : Contains(content, term)
            THEN IF IsErrorCase(insight)
                 THEN <<"W","h","e","n"," ">> \o Lower(insight.error_identification)
                      \o <<","," ","a","v","o","i","d"," ","t","h","i","s"," ","a","p","p","r","o","a","c","h"," ","a","n","d"," ","i","n","s","t","e","a","d",":"," ">>
                      \o insight.correct_approach
                 ELSE <<"W","h","e","n"," ","a","n","s","w","e","r","i","n","g"," ","s","i","m","i","l","a","r"," ","q","u","e","s","t","i","o","n","s",","," ","u","s","e"," ","t","h","i","s"," ","a","p","p","r","o","a","c","h",":"," ">>
                      \o insight.correct_approach
            ELSE Strip(content)
        formatted == ApplyStructuredFormatting(cleaned)
    IN  IF formatted = <<>> \/ Len(formatted) < MinContentLen
        THEN CreateFallbackInsight(insight)
        ELSE formatted

\* the ordered (label, keywords) table of _determine_section
SectionTable ==
    << [label |-> "Explanation Strategies",
        words |-> {<<"e","x","p","l","a","i","n">>, <<"d","e","f","i","n","i","t","i","o","n">>,
                   <<"w","h","a","t"," ","i","s">>, <<"d","e","s","c","r","i","b","e">>}],
       [label |-> "Calculation Strategies",
        words |-> {<<"c","a","l","c","u","l","a","t","e">>, <<"m","a","t","h">>,
                   <<"c","o","m","p","u","t","e">>, <<"s","o","l","v","e">>}],
       [label |-> "Search Strategies",
        words |-> {<<"s","e","a","r","c","h">>, <<"f","i","n","d">>,
                   <<"l","o","o","k"," ","u","p">>, <<"r","e","s","e","a","r","c","h">>}],
       [label |-> "Time Management",
        words |-> {<<"t","i","m","e">>, <<"d","a","t","e">>,
                   <<"s","c","h","e","d","u","l","e">>}],
       [label |-> "User Interaction",
        words |-> {<<"u","s","e","r">>, <<"p","e","r","s","o","n","a","l">>,
                   <<"i","n","d","i","v","i","d","u","a","l">>}],
       [label |-> "Error Prevention",
        words |-> {<<"e","r","r","o","r">>, <<"m","i","s","t","a","k","e">>,
                   <<"w","r","o","n","g">>, <<"i","n","c","o","r","r","e","c","t">>}],
       [label |-> "Response Formatting",
        words |-> {<<"f","o","r","m","a","t">>, <<"s","t","r","u","c","t","u","r","e">>,
                   <<"o","r","g","a","n","i","z","e">>, <<"b","u","l","l","e","t">>}] >>

\* _determine_section: the first category one of whose keywords occurs
DetermineSection(insight) ==
    LET t == Lower(insight.key_insight)
        hit == {k \in 1..Len(SectionTable) :
                   \E w \in SectionTable[k].words : Contains(t, w)}
    IN  IF hit = {} THEN "General Strategies"
        ELSE SectionTable[CHOOSE k \in hit : \A x \in hit : k <= x].label

\* insights the reflection step hands over
KeyInsights ==
    {TCheckUnits, TSolveX, TExplainWhy,
     <<"A","l","w","a","y","s"," ","c","o","n","f","i","r","m"," ","u","n","i","t","s"," ","b","e","f","o","r","e"," ","c","a","l","c","u","l","a","t","i","n","g",".">>,
     <<"{","x","}"," ","i","s"," ","s","e","t">>,
     <<"u","s","e"," ","S","I","\n","a","s","k">>}
ErrorIdentifications == {<<"N","o"," ","e","r","r","o","r","s">>, <<"B","a","d"," ","s","u","m">>}
CorrectApproaches == {TVerifyUnit, <<"u","s","e"," ","{","u","}">>}
Confidences == {40, 50, 60, 70, 80}
FeedbackIds == {"fb-1"}

Insights ==
    [error_identification : ErrorIdentifications, correct_approach : CorrectApproaches,
     key_insight : KeyInsights, confidence : Confidences]

\* DeltaOperation; bullet_id 0 and section "None" stand for None
DeltaOperation(operation, bullet_id, content, section, helpful_increment) ==
    [operation |-> operation, bullet_id |-> bullet_id, content |-> content,
     section |-> section, helpful_increment |-> helpful_increment,
     harmful_increment |-> 0]

\* DeltaUpdate
DeltaUpdate(operations, t, feedback_id) ==
    [operations |-> operations, timestamp |-> t, source_feedback_id |-> feedback_id,
     total_operations |-> Len(operations)]

\* insight.confidence > 0.5 (line 55) (variant: >=)
AcceptedFromThreshold(insight) == insight.confidence >= AcceptConfidence
Accepted(insight) == insight.confidence > AcceptConfidence

\* helpful_increment of the UPDATE operation (line 75)
\* (variant: the confidence not looked at)
HelpfulIncrementAlways(insight) == 1
HelpfulIncrement(insight) == IF insight.confidence > HighConfidence THEN 1 ELSE 0

\* lines 55-99 of process_insights: the operations for an insight, given
\* the bullets _find_similar_bullets returned
\* (variant: the threshold parameter of _find_similar_bullets applied to the
\* cosine of the key insight and the best match)
OperationsOverThreshold(insight, similar) ==
    LET q == NormalizeEmbedding(GetEmbedding(insight.key_insight, TRUE))
        v == NormalizeEmbedding(GetEmbedding(similar[1].content, TRUE))
    IN  IF ~Accepted(insight) THEN <<>>
        ELSE IF similar # <<>> /\ Dot(q.num, v.num) * 10 >= 8 * q.den * v.den
        THEN <<DeltaOperation("UPDATE", similar[1].id,
                              CleanAndFormatContent(insight.key_insight, insight), "None",
                              HelpfulIncrement(insight))>>
        ELSE <<DeltaOperation("ADD", 0,
                              CleanAndFormatContent(
                                  CleanAndFormatContent(insight.key_insight, insight),
                                  insight),
                              DetermineSection(insight), 1)>>
Operations(insight, similar) ==
    IF Accepted(insight)
    THEN IF similar # <<>>
         THEN <<DeltaOperation("UPDATE", similar[1].id,
                               CleanAndFormatContent(insight.key_insight, insight), "None",
                               HelpfulIncrement(insight))>>
         ELSE <<DeltaOperation("ADD", 0,
                               CleanAndFormatContent(
                                   CleanAndFormatContent(insight.key_insight, insight),
                                   insight),
                               DetermineSection(insight), 1)>>
    ELSE <<>>

\* process_insights(insight, feedback_id); _find_similar_bullets searches
\* the store only for an accepted insight and a non-empty store
ProcessInsights(insight, feedback_id, embOk) ==
    /\ obs.op = "none"
    /\ IF Accepted(insight) /\ bullets # <<>>
       THEN LET q == NormalizeEmbedding(GetEmbedding(insight.key_insight, embOk))
            IN  \E indices \in FaissSearch(index, q, SearchK(bullets, FindTopK)) :
                   LET found == RelevantBullets(bullets, indices, FindTopK)
                       similar == SubSeq(found, 1, Min(FindKeep, Len(found)))
                   IN  obs' = [op |-> "process_insights", calls |-> 1,
                               insight |-> insight, qvec |-> q,
                               neighbours |-> indices, result |-> similar,
                               delta |-> DeltaUpdate(Operations(insight, similar),
                                                     now, feedback_id)] @@ NoObs
       ELSE obs' = [op |-> "process_insights", insight |-> insight,
                    delta |-> DeltaUpdate(Operations(insight, <<>>), now, feedback_id)]
                   @@ NoObs
    /\ UNCHANGED <<store, disk, now, nextId, faults, ret, callers>>

\* the operations of process_positive_feedback and process_negative_feedback
\* (variant: one confidence threshold for both)
OneThreshold(path, insight) ==
    IF insight.confidence <= AcceptConfidence THEN <<>>
    ELSE IF path = "positive"
    THEN <<DeltaOperation("ADD", 0, <<"S","U","C","C","E","S","S"," ","P","A","T","T","E","R","N",":"," ">> \o insight.key_insight,
                          "Success Patterns", 1)>>
    ELSE IF path = "negative"
    THEN <<DeltaOperation("ADD", 0,
                          <<"A","V","O","I","D",":"," ">> \o insight.error_identification
                          \o <<"\n","\n","I","n","s","t","e","a","d",":"," ">> \o insight.correct_approach,
                          "Anti-Patterns", 1)>>
    ELSE <<>>
FeedbackOperations(path, insight) ==
    IF path = "positive" /\ insight.confidence > AcceptConfidence
    THEN <<DeltaOperation("ADD", 0, <<"S","U","C","C","E","S","S"," ","P","A","T","T","E","R","N",":"," ">> \o insight.key_insight,
                          "Success Patterns", 1)>>
    ELSE IF path = "negative" /\ insight.confidence > NegativeConfidence
    THEN <<DeltaOperation("ADD", 0,
                          <<"A","V","O","I","D",":"," ">> \o insight.error_identification
                          \o <<"\n","\n","I","n","s","t","e","a","d",":"," ">> \o insight.correct_approach,
                          "Anti-Patterns", 1)>>
    ELSE <<>>

\* process_negative_feedback(insight, feedback_id) called on its own
ProcessNegativeFeedback(insight, feedback_id) ==
    /\ obs.op = "none"
    /\ obs' = [op |-> "process_negative_feedback", insight |-> insight,
               delta |-> DeltaUpdate(FeedbackOperations("negative", insight),
                                     now, feedback_id)] @@ NoObs
    /\ UNCHANGED <<store, disk, now, nextId, faults, ret, callers>>

\* process_positive_feedback(insight, feedback_id) called on its own
ProcessPositiveFeedback(insight, feedback_id) ==
    /\ obs.op = "none"
    /\ obs' = [op |-> "process_positive_feedback", insight |-> insight,
               delta |-> DeltaUpdate(FeedbackOperations("positive", insight),
                                     now, feedback_id)] @@ NoObs
    /\ UNCHANGED <<store, disk, now, nextId, faults, ret, callers>>

---------------------------------------------------------------------------
(* The store used by one caller at a time.                                 *)

\* the caller is done with the result of a read-only call
Return ==
    /\ obs.op # "none"
    /\ obs' = NoObs
    /\ UNCHANGED <<store, disk, now, nextId, faults, ret, callers>>

\* the failures a call may still meet: embedding calls that throw (a set of
\* them, or one flag) and the way the save ends
Budget == MaxFaults - faults
SaveFaults == {o \in SaveOutcomes : Cost(TRUE, o) <= Budget}
EmbedFaults == {e \in BOOLEAN : Cost(e, "ok") <= Budget}
FewOf(S) == {x \in SUBSET S : Cardinality(x) <= Budget}

Next ==
    \/ \E id \in Uuid4Prefixes, c \in Contents, s \in Sections,
          e \in EmbedFaults, o \in SaveFaults :
          Cost(e, o) <= Budget /\ AddBullet(id, c, s, e, o) /\ UNCHANGED run
    \/ \E id \in 1..nextId, h \in BOOLEAN, o \in SaveFaults :
          UpdateCounters(id, h, o) /\ UNCHANGED run
    \/ \E q \in Queries, k \in 1..MaxTopK, e \in BOOLEAN :
          RetrieveRelevant(q, k, e) /\ UNCHANGED run
    \/ \E id \in 1..nextId : GetBullet(id) /\ UNCHANGED run
    \/ \E old \in BOOLEAN : GetStats(old) /\ UNCHANGED run
    \/ \E thr \in Thresholds, f \in FewOf(Pairs(Len(bullets))),
          l \in FewOf(0..(Len(bullets) - 1)), o \in SaveFaults :
          /\ Cardinality(f) + Cardinality(l) + Cost(TRUE, o) <= Budget
          /\ Deduplicate(thr, f, l, o)
          /\ UNCHANGED run
    \/ Return /\ UNCHANGED run

Spec == Init /\ [][Next]_vars

---------------------------------------------------------------------------
(* The Curator's delta computation on the store as loaded.                 *)

NextCurator ==
    \/ \E i \in Insights, f \in FeedbackIds, e \in BOOLEAN :
          ProcessInsights(i, f, e) /\ UNCHANGED run
    \/ \E i \in Insights, f \in FeedbackIds :
          ProcessNegativeFeedback(i, f) /\ UNCHANGED run
    \/ \E i \in Insights, f \in FeedbackIds :
          ProcessPositiveFeedback(i, f) /\ UNCHANGED run
    \/ Return /\ UNCHANGED run

SpecCurator == Init /\ [][NextCurator]_vars

---------------------------------------------------------------------------
(* PlaybookManager used by two callers without a lock: each call runs as   *)
(* the sequence of its statements that touch the shared lists, and the     *)
(* statements of two open calls interleave.                                *)

\* caller p moves to step `next` with locals `local`
Step(p, next, local) ==
    /\ pc' = [pc EXCEPT ![p] = next]
    /\ loc' = [loc EXCEPT ![p] = local]
    /\ overlap' = (overlap \/ \E q \in Procs \ {p} : pc[q] # "idle")
    /\ UNCHANGED <<faults, ret, obs, run>>

\* add_bullet, lines 100-112: the id is drawn, the Bullet built and appended
AddAppend(p, id, content, section) ==
    /\ pc[p] = "idle"
    /\ Len(bullets) < MaxBullets
    /\ now <= MaxTime
    /\ bullets' = Append(bullets, Bullet(id, content, section, now))
    /\ nextId' = IF id = nextId THEN nextId + 1 ELSE nextId
    /\ now' = now + 1
    /\ Step(p, "add_map", [NoLocal EXCEPT !.id = id,
                                          !.bullet = Bullet(id, content, section, now)])
    /\ UNCHANGED <<bullet_id_to_index, index, disk>>

\* add_bullet, line 113: the map entry, from the length of the list now
AddMap(p) ==
    /\ pc[p] = "add_map"
    /\ bullet_id_to_index' =
          SetItem(bullet_id_to_index, loc[p].id, AppendedPosition(bullets))
    /\ Step(p, "add_index", loc[p])
    /\ UNCHANGED <<bullets, index, disk, now, nextId>>

\* add_bullet, lines 116-118: the vector appended to the index
AddIndex(p) ==
    /\ pc[p] = "add_index"
    /\ index' = Append(index, NormalizeEmbedding(GetEmbedding(loc[p].bullet.content, TRUE)))
    /\ Step(p, "add_save", loc[p])
    /\ UNCHANGED <<bullets, bullet_id_to_index, disk, now, nextId>>

\* the save_playbook call that ends add_bullet (121), update_counters (142)
\* and deduplicate (235)
SaveStep(p, at) ==
    /\ pc[p] = at
    /\ disk' = SavePlaybook(bullets, index, disk, now, "ok")
    /\ Step(p, "idle", NoLocal)
    /\ UNCHANGED <<store, now, nextId>>

AddSave(p) == SaveStep(p, "add_save")

\* update_counters, lines 128-131: the id looked up in the map
UpdLookup(p, id, helpful) ==
    /\ pc[p] = "idle"
    /\ now <= MaxTime
    /\ IF id \notin DOMAIN bullet_id_to_index
       THEN Step(p, "idle", NoLocal)
       ELSE Step(p, "upd_bump", [NoLocal EXCEPT !.id = id, !.helpful = helpful,
                                                !.pos = bullet_id_to_index[id]])
    /\ UNCHANGED <<store, disk, now, nextId>>

\* update_counters, lines 132-139: the bullet at that position is counted
\* and stamped; IndexError when the list has become shorter
UpdBump(p) ==
    /\ pc[p] = "upd_bump"
    /\ IF loc[p].pos + 1 > Len(bullets)
       THEN /\ Step(p, "idle", NoLocal)
            /\ UNCHANGED <<bullets, now>>
       ELSE /\ bullets' = [bullets EXCEPT ![loc[p].pos + 1] =
                              Increment(@, loc[p].helpful, now)]
            /\ now' = now + 1
            /\ Step(p, "upd_save", loc[p])
    /\ UNCHANGED <<bullet_id_to_index, index, disk, nextId>>

UpdSave(p) == SaveStep(p, "upd_save")

\* deduplicate, lines 179-224: the comparison loops, which add the counters
\* in place and mark positions for removal
DedupScan(p, thr) ==
    /\ pc[p] = "idle"
    /\ now <= MaxTime
    /\ IF Len(bullets) < 2
       THEN /\ Step(p, "idle", NoLocal)
            /\ UNCHANGED <<bullets, now>>
       ELSE LET st == DedupOuter([bs |-> bullets, removed |-> {}], 0, thr, {})
            IN  /\ bullets' = st.bs
                /\ IF st.removed = {}
                   THEN Step(p, "idle", NoLocal) /\ UNCHANGED now
                   ELSE Step(p, "dedup_filter", [NoLocal EXCEPT !.removed = st.removed])
                        /\ now' = now + 1
    /\ UNCHANGED <<bullet_id_to_index, index, disk, nextId>>

\* deduplicate, line 228: the marked positions dropped from the list as it is now
DedupFilter(p) ==
    /\ pc[p] = "dedup_filter"
    /\ bullets' = Survivors(bullets, loc[p].removed)
    /\ Step(p, "dedup_rebuild", loc[p])
    /\ UNCHANGED <<bullet_id_to_index, index, disk, now, nextId>>

\* deduplicate, line 232: _rebuild_index
DedupRebuild(p) ==
    /\ pc[p] = "dedup_rebuild"
    /\ LET re == RebuildIndex(bullets, {})
       IN  /\ bullet_id_to_index' = re.bullet_id_to_index
           /\ index' = re.index
    /\ Step(p, "dedup_save", loc[p])
    /\ UNCHANGED <<bullets, disk, now, nextId>>

DedupSave(p) == SaveStep(p, "dedup_save")

NextConc ==
    \E p \in Procs :
        \/ \E id \in Uuid4Prefixes, c \in Contents, s \in Sections : AddAppend(p, id, c, s)
        \/ AddMap(p)
        \/ AddIndex(p)
        \/ AddSave(p)
        \/ \E id \in 1..nextId, h \in BOOLEAN : UpdLookup(p, id, h)
        \/ UpdBump(p)
        \/ UpdSave(p)
        \/ \E thr \in Thresholds : DedupScan(p, thr)
        \/ DedupFilter(p)
        \/ DedupRebuild(p)
        \/ DedupSave(p)

SpecConc == Init /\ [][NextConc]_vars

---------------------------------------------------------------------------
(* CuratorAgent.merge_delta: the operations of a delta applied to the      *)
(* store one call at a time.                                               *)

\* an UPDATE operation with both increments given, carrying a content as
\* those of process_insights do (line 74)
UpdateOperation(bullet_id, helpful_increment, harmful_increment) ==
    [DeltaOperation("UPDATE", bullet_id, TSolveX, "None", helpful_increment)
        EXCEPT !.harmful_increment = harmful_increment]

\* operations a caller puts into a delta: ADD with and without a section,
\* UPDATE of no bullet (None), of the first bullet and of an id the store
\* does not hold, with no, two helpful, and one helpful and one harmful unit
MergeOperations ==
    {DeltaOperation("ADD", 0, TExplainWhy, s, 1) : s \in {"None", "Success Patterns"}}
    \cup {UpdateOperation(id, c[1], c[2]) :
             id \in {0, 1, nextId}, c \in {<<0, 0>>, <<2, 0>>, <<1, 1>>}}

Deltas ==
    UNION {{DeltaUpdate(ops, now, "fb-1") : ops \in [1..n -> MergeOperations]} :
              n \in 0..MaxOps}

\* `operation.section or "General"` (line 125)
SectionOr(section) == IF section = "None" THEN "General" ELSE section

\* which counter the next unit increment of an UPDATE raises (lines
\* 133-136): the helpful units come first
\* (variant: the harmful units first)
HarmfulUnitsFirst(op, unit) == unit >= op.harmful_increment
HelpfulUnit(op, unit) == unit < op.helpful_increment

\* the except clause of merge_delta (lines 146-148): the loop is left and
\* False returned
\* (variant: the exception swallowed inside the loop)
ContinueWithNext(r) == [r EXCEPT !.k = @ + 1, !.unit = 0]
OnException(r) == [r EXCEPT !.pc = "merged", !.success = FALSE]

\* the call in progress after a store call of operation k: call is what
\* was called, raised whether it raised, last whether it ends the operation
AfterCall(r, call, raised, last) ==
    LET logged == [r EXCEPT !.calls = Append(@, call @@ [k |-> r.k, raised |-> raised])]
    IN  IF raised THEN OnException(logged)
        ELSE IF last THEN [logged EXCEPT !.k = @ + 1, !.unit = 0]
        ELSE [logged EXCEPT !.unit = @ + 1]

\* a call entering the loop of merge_delta (lines 112-118)
BeginMerge(r, entry, delta) ==
    [r EXCEPT !.pc = "merge", !.entry = entry, !.delta = delta, !.k = 1, !.unit = 0,
              !.calls = <<>>, !.base = bullets, !.success = FALSE]

\* merge_delta(delta) is called
MergeDelta(delta) ==
    /\ run.pc = "idle"
    /\ run.runs < MaxRuns
    /\ obs.op = "none"
    /\ run' = BeginMerge([NoRun EXCEPT !.runs = run.runs + 1], "merge_delta", delta)
    /\ UNCHANGED <<store, disk, now, nextId, faults, ret, obs, callers>>

\* the operation the loop is at
Operation == run.delta.operations[run.k]
InLoop == run.pc = "merge" /\ run.k <= Len(run.delta.operations)

\* lines 121-128: an ADD operation, one add_bullet call
MergeAdd(id, embOk, outcome) ==
    /\ InLoop
    /\ Operation.operation = "ADD"
    /\ AddBullet(id, Operation.content, SectionOr(Operation.section), embOk, outcome)
    /\ run' = AfterCall(run, [call |-> "add_bullet", helpful |-> FALSE,
                               pos |-> Len(bullets)], ret'.raised, TRUE)

\* lines 130-136: one unit increment of an UPDATE operation, one
\* update_counters call whose return value is not looked at
MergeUpdate(outcome) ==
    /\ InLoop
    /\ Operation.operation = "UPDATE"
    /\ Operation.bullet_id # 0
    /\ run.unit < Operation.helpful_increment + Operation.harmful_increment
    /\ UpdateCounters(Operation.bullet_id, HelpfulUnit(Operation, run.unit), outcome)
    /\ run' = AfterCall(run,
                        [call |-> "update_counters",
                         helpful |-> HelpfulUnit(Operation, run.unit),
                         pos |-> IF Operation.bullet_id \in DOMAIN bullet_id_to_index
                                 THEN bullet_id_to_index[Operation.bullet_id]
                                 ELSE 0 - 1],
                        ret'.raised,
                        run.unit + 1 = Operation.helpful_increment
                                           + Operation.harmful_increment)

\* lines 130-132: an UPDATE operation with no bullet_id or no unit to add
\* makes no call
MergeSkip ==
    /\ InLoop
    /\ Operation.operation = "UPDATE"
    /\ \/ Operation.bullet_id = 0
       \/ Operation.helpful_increment + Operation.harmful_increment = 0
    /\ run' = [run EXCEPT !.k = @ + 1, !.unit = 0]
    /\ UNCHANGED <<store, disk, now, nextId, faults, ret, obs, callers>>

\* _save_delta_log, line 267: the file name is the clock reading cut to
\* the second. The seconds the clock can show at a write: the one the
\* newest file is named by, or the one after it
DeltaLogNames ==
    IF run.updates = {} THEN {1}
    ELSE LET newest == CHOOSE n \in {f.name : f \in run.updates} :
                           \A f \in run.updates : f.name <= n
         IN  {newest, newest + 1}

\* lines 250-272: the log data of the delta written to the file of that
\* name, which open(filepath, 'w') creates or truncates
SaveDeltaLog(files, name, delta) ==
    {f \in files : f.name # name} \cup {[name |-> name, log_data |-> delta]}

\* lines 140-144: after the loop _save_delta_log, which swallows a failed
\* write (lines 270-274), then True returned
MergeSaveLog(written, second) ==
    /\ run.pc = "merge"
    /\ run.k > Len(run.delta.operations)
    /\ faults' = faults + (IF written THEN 0 ELSE 1)
    /\ run' = [run EXCEPT !.pc = "merged", !.success = TRUE,
                          !.delta_log = IF written THEN "written" ELSE "failed",
                          !.updates = IF written THEN SaveDeltaLog(@, second, run.delta)
                                      ELSE @]
    /\ UNCHANGED <<store, disk, now, nextId, ret, obs, callers>>

LogFaults == {w \in BOOLEAN : w \/ Budget > 0}

NextMerge ==
    \/ \E d \in Deltas : MergeDelta(d)
    \/ \E id \in Uuid4Prefixes, e \in EmbedFaults, o \in SaveFaults :
          Cost(e, o) <= Budget /\ MergeAdd(id, e, o)
    \/ \E o \in SaveFaults : MergeUpdate(o)
    \/ MergeSkip
    \/ \E w \in LogFaults, s \in DeltaLogNames : MergeSaveLog(w, s)

SpecMerge == Init /\ [][NextMerge]_vars

\* merge_delta called again once a call has returned
MergeAgain(delta) ==
    /\ run.pc = "merged"
    /\ run.entry = "merge_delta"
    /\ run.runs < MaxMerges
    /\ run' = BeginMerge([run EXCEPT !.runs = @ + 1, !.delta_log = "none",
                                     !.history = Append(@, [delta |-> run.delta,
                                                            success |-> run.success])],
                         "merge_delta", delta)
    /\ UNCHANGED <<store, disk, now, nextId, faults, ret, obs, callers>>

\* the deltas of the callers that merge more than once: an ADD, an UPDATE
\* of the first bullet by one helpful unit, or the two in a row
RepeatedDeltas ==
    LET add == DeltaOperation("ADD", 0, TExplainWhy, "None", 1)
        update == UpdateOperation(1, 1, 0)
    IN  {DeltaUpdate(ops, 1, "fb-1") : ops \in {<<add>>, <<update>>, <<update, add>>}}

NextRemerge ==
    \/ \E d \in RepeatedDeltas : MergeDelta(d)
    \/ \E d \in RepeatedDeltas : MergeAgain(d)
    \/ \E id \in Uuid4Prefixes, e \in EmbedFaults, o \in SaveFaults :
          Cost(e, o) <= Budget /\ MergeAdd(id, e, o)
    \/ \E o \in SaveFaults : MergeUpdate(o)
    \/ \E w \in LogFaults, s \in DeltaLogNames : MergeSaveLog(w, s)

SpecRemerge == Init /\ [][NextRemerge]_vars

---------------------------------------------------------------------------
(* ACEPipeline.process_feedback (ace_pipeline.py): one feedback id taken   *)
(* through fetch, Reflector, Curator, merge and the usage counters.        *)

\* feedback records and chat turns the two stores can hold for the id
FeedbackRecords == [feedback_type : {"correct", "incorrect", "positive"},
                    rating : {NoRating, 1, 3, 5}]
UsedBullets == {<<>>, <<1>>, <<1, 2>>}
Question == TSolveX
ModelResponse == TCheckUnits

\* insights the LLM call of analyze_feedback can give
ReflectedInsights ==
    {i \in Insights : /\ i.key_insight \in {TCheckUnits, TSolveX}
                     /\ i.correct_approach = TVerifyUnit
                     /\ i.confidence \in {70, 80}}

\* extract_insights_from_success(question, model_response, feedback_type, rating)
ExtractInsightsFromSuccess(rating) ==
    IF rating >= 4
    THEN [error_identification |-> <<"N","o"," ","e","r","r","o","r","s"," ","-"," ","s","u","c","c","e","s","s","f","u","l"," ","r","e","s","p","o","n","s","e">>,
          correct_approach |-> <<"C","o","n","t","i","n","u","e"," ","u","s","i","n","g"," ","t","h","i","s"," ","a","p","p","r","o","a","c","h">>,
          key_insight |-> <<"W","h","e","n"," ","a","n","s","w","e","r","i","n","g"," ","'">> \o Question
                          \o <<"'",","," ","u","s","e"," ","t","h","i","s"," ","s","u","c","c","e","s","s","f","u","l"," ","p","a","t","t","e","r","n",":"," ">>
                          \o ModelResponse,
          confidence |-> 80]
    ELSE [error_identification |-> <<"P","a","r","t","i","a","l","l","y"," ","s","u","c","c","e","s","s","f","u","l"," ","r","e","s","p","o","n","s","e">>,
          correct_approach |-> <<"B","u","i","l","d"," ","o","n"," ","w","h","a","t"," ","w","o","r","k","e","d",","," ","i","m","p","r","o","v","e"," ","w","h","a","t"," ","d","i","d","n","'","t">>,
          key_insight |-> <<"P","a","r","t","i","a","l"," ","s","u","c","c","e","s","s"," ","p","a","t","t","e","r","n"," ","f","o","r"," ","'">> \o Question
                          \o <<"'",":"," ">> \o ModelResponse,
          confidence |-> 60]

\* _run_reflector: the insights it can return, as <<has_insight, insight>>.
\* A comparison of a rating that is None raises TypeError, which the except
\* clause turns into None; so does analyze_feedback when it raises (thrown)
RunReflectorResults(fb, thrown) ==
    LET analysed == IF thrown THEN {<<FALSE, NoInsight>>}
                    ELSE {<<TRUE, i>> : i \in ReflectedInsights}
    IN  IF fb.feedback_type = "incorrect" THEN analysed
        ELSE IF fb.rating = NoRating THEN {<<FALSE, NoInsight>>}
        ELSE IF fb.rating <= 2 THEN analysed
        ELSE IF fb.feedback_type = "correct" \/ fb.rating >= 4
        THEN {<<TRUE, ExtractInsightsFromSuccess(fb.rating)>>}
        ELSE analysed

\* the branch _run_curator takes (lines 185-203)
CuratorPath(has_insight, insight) ==
    LET kind == Lower(insight.error_identification)
    IN  IF ~has_insight THEN "none"
        ELSE IF Contains(kind, <<"s","u","c","c","e","s","s">>) \/ Contains(kind, <<"c","o","r","r","e","c","t">>)
        THEN "positive"
        ELSE IF Contains(kind, <<"e","r","r","o","r">>) \/ Contains(kind, <<"w","r","o","n","g">>)
        THEN "negative"
        ELSE "insights"

\* the ACEProcessingResult of an early return and of the except clause
\* (lines 52-60, 69-77, 143-151)
FailedResult(feedback_id, message) ==
    [success |-> FALSE, feedback_id |-> feedback_id, insights_generated |-> 0,
     bullets_added |-> 0, bullets_updated |-> 0, error_message |-> message]

\* the error_message of the early returns (lines 59, 76)
\* (variant: one message for both)
OneMessage(feedback_found) == "Feedback not found"
NotFoundMessage(feedback_found) ==
    IF feedback_found THEN "Chat data not found" ELSE "Feedback not found"

\* the except clause of process_feedback (lines 141-151)
\* (variant: the exception leaves the call)
Propagate(r, message) == [r EXCEPT !.pc = "done", !.raised = TRUE]
Except(r, message) ==
    [r EXCEPT !.pc = "done", !.result = FailedResult(r.feedback_id, message)]

\* process_feedback(feedback_id), lines 43-79: the feedback record and the
\* chat turn are fetched. found says how far this gets: get_feedback raised
\* ("raise") or returned None ("nothing"), get_chat_data returned None
\* ("feedback"), or both were found ("both"); feedback and chat are what
\* the two stores hold
ProcessFeedback(feedback_id, found, feedback, chat) ==
    /\ run.pc = "idle"
    /\ obs.op = "none"
    /\ LET r == [NoRun EXCEPT !.runs = run.runs + 1, !.entry = "process_feedback",
                              !.feedback_id = feedback_id, !.found = found,
                              !.base = bullets, !.results = run.results,
                              !.logged = run.logged, !.updates = run.updates,
                              !.feedback_store = run.feedback_store,
                              !.tasks = run.tasks]
       IN  run' = IF found = "raise"
                  THEN Except([r EXCEPT !.steps = <<"fetch_feedback">>], "get_feedback")
                  ELSE IF found = "nothing"
                  THEN [r EXCEPT !.pc = "done", !.steps = <<"fetch_feedback">>,
                                 !.result = FailedResult(feedback_id, NotFoundMessage(FALSE))]
                  ELSE IF found = "feedback"
                  THEN [r EXCEPT !.pc = "done", !.feedback = feedback,
                                 !.steps = <<"fetch_feedback", "fetch_chat">>,
                                 !.result = FailedResult(feedback_id, NotFoundMessage(TRUE))]
                  ELSE [r EXCEPT !.pc = "reflect", !.feedback = feedback,
                                 !.used_bullets = chat,
                                 !.steps = <<"fetch_feedback", "fetch_chat">>]
    /\ faults' = faults + (IF found = "raise" THEN 1 ELSE 0)
    /\ UNCHANGED <<store, disk, now, nextId, ret, obs, callers>>

\* lines 81-90: _run_reflector
RunReflector(thrown) ==
    /\ run.pc = "reflect"
    /\ faults' = faults + (IF thrown THEN 1 ELSE 0)
    /\ \E got \in RunReflectorResults(run.feedback, thrown) :
          run' = [run EXCEPT !.pc = "curate", !.has_insight = got[1], !.insight = got[2],
                             !.steps = Append(@, "reflect")]
    /\ UNCHANGED <<store, disk, now, nextId, ret, obs, callers>>

\* lines 92-98: _run_curator on the branches that do not search the store,
\* and on the search branch when process_insights raises (thrown)
RunCurator(thrown) ==
    /\ run.pc = "curate"
    /\ LET path == CuratorPath(run.has_insight, run.insight)
       IN  /\ thrown => path # "none"
           /\ ~thrown => path # "insights"
           /\ run' = [run EXCEPT !.pc = "curated", !.steps = Append(@, "curate"),
                                 !.delta = DeltaUpdate(
                                     IF thrown THEN <<>>
                                     ELSE FeedbackOperations(path, run.insight),
                                     now, run.feedback_id)]
    /\ faults' = faults + (IF thrown THEN 1 ELSE 0)
    /\ UNCHANGED <<store, disk, now, nextId, ret, obs, callers>>

\* lines 92-98: _run_curator on the branch that calls process_insights
RunCuratorInsights(embOk) ==
    /\ run.pc = "curate"
    /\ CuratorPath(run.has_insight, run.insight) = "insights"
    /\ ProcessInsights(run.insight, run.feedback_id, embOk)
    /\ run' = [run EXCEPT !.pc = "curated", !.steps = Append(@, "curate")]

\* lines 100-102: _apply_updates calls merge_delta with the delta the
\* Curator returned
ApplyUpdates ==
    /\ run.pc = "curated"
    /\ obs' = NoObs
    /\ run' = [BeginMerge(run, "process_feedback",
                          IF obs.op = "process_insights" THEN obs.delta ELSE run.delta)
                  EXCEPT !.steps = Append(@, "merge")]
    /\ UNCHANGED <<store, disk, now, nextId, faults, ret, callers>>

\* lines 322-323 of _update_bullet_counters; the comparison of a rating
\* that is None raises TypeError
IsPositive(fb) == fb.rating >= 4 \/ fb.feedback_type = "positive"
IsNegative(fb) == fb.rating <= 2 \/ fb.feedback_type = "incorrect"

\* lines 104-106 and 313-323: _update_bullet_counters is called once the
\* merge has returned; it returns at once without used bullets, and its
\* except clause catches the TypeError of a rating that is None
\* (variant: not called after a merge that failed)
UpdateCountersOfMerged ==
    /\ run.pc = "merged"
    /\ run.entry = "process_feedback"
    /\ run' = IF ~run.success THEN [run EXCEPT !.pc = "result"]
              ELSE [run EXCEPT !.steps = Append(@, "usage"), !.usage_base = bullets,
                               !.u = 1,
                               !.pc = IF run.used_bullets = <<>>
                                         \/ run.feedback.rating = NoRating
                                      THEN "result" ELSE "usage"]
    /\ UNCHANGED <<store, disk, now, nextId, faults, ret, obs, callers>>
UpdateBulletCounters ==
    /\ run.pc = "merged"
    /\ run.entry = "process_feedback"
    /\ run' = [run EXCEPT !.steps = Append(@, "usage"), !.usage_base = bullets, !.u = 1,
                          !.pc = IF run.used_bullets = <<>>
                                    \/ run.feedback.rating = NoRating
                                 THEN "result" ELSE "usage",
                          !.usage_caught = (run.used_bullets # <<>>
                                               /\ run.feedback.rating = NoRating)]
    /\ UNCHANGED <<store, disk, now, nextId, faults, ret, obs, callers>>

\* lines 325-331: one update_counters call of the loop over used_bullets
UsageUpdate(outcome) ==
    /\ run.pc = "usage"
    /\ run.u <= Len(run.used_bullets)
    /\ IsPositive(run.feedback) \/ IsNegative(run.feedback)
    /\ UpdateCounters(run.used_bullets[run.u], IsPositive(run.feedback), outcome)
    /\ run' = IF ret'.raised
              THEN [run EXCEPT !.pc = "result", !.usage_caught = TRUE]
              ELSE [run EXCEPT !.u = @ + 1]

\* lines 332-340: after the loop (which only prints for neutral feedback)
\* save_playbook, whose exception is caught
UsageSave(outcome) ==
    /\ run.pc = "usage"
    /\ \/ run.u > Len(run.used_bullets)
       \/ ~(IsPositive(run.feedback) \/ IsNegative(run.feedback))
    /\ disk' = SavePlaybook(bullets, index, disk, now, outcome)
    /\ faults' = faults + Cost(TRUE, outcome)
    /\ run' = [run EXCEPT !.pc = "result", !.usage_caught = (outcome # "ok")]
    /\ UNCHANGED <<store, now, nextId, ret, obs, callers>>

\* insights_generated (line 120) (variant: counted without an insight)
AlwaysOneInsight(has_insight) == 1
InsightsGenerated(has_insight) == IF has_insight THEN 1 ELSE 0

\* lines 113-139: the result is built, _log_processing appends it to the
\* log and writes the log file (a failed write is swallowed), and the
\* result is returned
ReturnResult(written) ==
    /\ run.pc = "result"
    /\ LET ops == run.delta.operations
           count(kind) == Cardinality({k \in 1..Len(ops) : ops[k].operation = kind})
       IN  run' = [run EXCEPT !.pc = "done", !.steps = Append(@, "done"),
                              !.processing_log = IF written THEN "written" ELSE "failed",
                              !.logged = Append(@, run.feedback_id),
                              !.result = [success |-> run.success,
                                          feedback_id |-> run.feedback_id,
                                          insights_generated |->
                                              InsightsGenerated(run.has_insight),
                                          bullets_added |-> count("ADD"),
                                          bullets_updated |-> count("UPDATE"),
                                          error_message |-> "None"]]
    /\ faults' = faults + (IF written THEN 0 ELSE 1)
    /\ UNCHANGED <<store, disk, now, nextId, ret, obs, callers>>

NextPipeline ==
    \/ \E found \in {"raise", "nothing", "feedback", "both"},
          fb \in FeedbackRecords, chat \in UsedBullets :
          /\ found = "raise" => Budget > 0
          /\ run.runs < MaxRuns
          /\ ProcessFeedback("fb-1", found, fb, chat)
    \/ \E t \in LogFaults : RunReflector(~t)
    \/ \E t \in LogFaults : RunCurator(~t)
    \/ \E e \in EmbedFaults : RunCuratorInsights(e)
    \/ ApplyUpdates
    \/ \E id \in Uuid4Prefixes, e \in EmbedFaults, o \in SaveFaults :
          Cost(e, o) <= Budget /\ MergeAdd(id, e, o)
    \/ \E o \in SaveFaults : MergeUpdate(o)
    \/ MergeSkip
    \/ \E w \in LogFaults, s \in DeltaLogNames : MergeSaveLog(w, s)
    \/ UpdateBulletCounters
    \/ \E o \in SaveFaults : UsageUpdate(o)
    \/ \E o \in SaveFaults : UsageSave(o)
    \/ \E w \in LogFaults : ReturnResult(w)

SpecPipeline == Init /\ [][NextPipeline]_vars

---------------------------------------------------------------------------
(* ACEPipeline.process_pending_feedback: the feedback ids of a batch taken *)
(* through process_feedback one after the other.                           *)

\* the ids of the feedback records get_all_feedback returned
PendingFeedback == <<"fb-1", "fb-2">>

\* lines 258-262: the result of process_feedback is appended and the loop
\* goes on; an exception of process_feedback would leave the loop
NextItem ==
    /\ run.pc = "done"
    /\ run.entry = "process_feedback"
    /\ ~run.raised
    /\ run' = [NoRun EXCEPT !.runs = run.runs, !.updates = run.updates,
                            !.logged = run.logged,
                            !.results = Append(run.results, run.result)]
    /\ UNCHANGED <<store, disk, now, nextId, faults, ret, obs, callers>>

\* the batch holds records of negative feedback on the first bullet
NextBatch ==
    \/ \E found \in {"raise", "nothing", "feedback", "both"} :
          /\ found = "raise" => Budget > 0
          /\ run.runs < Len(PendingFeedback)
          /\ ProcessFeedback(PendingFeedback[run.runs + 1], found,
                             [feedback_type |-> "incorrect", rating |-> 1], <<1>>)
    \/ \E t \in LogFaults : RunReflector(~t)
    \/ \E t \in LogFaults : RunCurator(~t)
    \/ \E e \in EmbedFaults : RunCuratorInsights(e)
    \/ ApplyUpdates
    \/ \E id \in Uuid4Prefixes, e \in EmbedFaults, o \in SaveFaults :
          Cost(e, o) <= Budget /\ MergeAdd(id, e, o)
    \/ \E o \in SaveFaults : MergeUpdate(o)
    \/ MergeSkip
    \/ \E w \in LogFaults, s \in DeltaLogNames : MergeSaveLog(w, s)
    \/ UpdateBulletCounters
    \/ \E o \in SaveFaults : UsageUpdate(o)
    \/ \E o \in SaveFaults : UsageSave(o)
    \/ \E w \in LogFaults : ReturnResult(w)
    \/ NextItem

SpecBatch == Init /\ [][NextBatch]_vars

---------------------------------------------------------------------------
(* ACEWorker.start_worker: the loop that looks for feedback not yet        *)
(* processed, beside a feedback store that other processes write to.       *)

\* FeedbackManager.save_feedback: the record of a feedback id is written to
\* the raw directory of the feedback store
SaveFeedback(feedback_id) ==
    /\ feedback_id \notin run.feedback_store
    /\ run' = [run EXCEPT !.feedback_store = @ \cup {feedback_id}]
    /\ UNCHANGED <<store, disk, now, nextId, faults, ret, obs, callers>>

\* _get_pending_feedback (lines 69-87). get_all_feedback returns FeedbackData
\* objects (feedback_system.py, lines 78-91), a dataclass that defines no
\* get method (lines 14-26): feedback.get("feedback_id") (line 79) raises
\* AttributeError at the first record, and the except clause (lines 85-87)
\* returns the empty list
GetPendingFeedback(all_feedback, processed) ==
    LET has_get == FALSE
    IN  IF all_feedback # {} /\ ~has_get THEN {}
        ELSE {id \in all_feedback : id \notin processed}

\* one round of the loop of start_worker (lines 36-38): _process_batch
\* (lines 49-66), which returns at once without pending feedback and
\* otherwise hands every pending id to process_feedback and adds it to
\* processed_feedback when the call returns (lines 94-104; the store calls
\* of process_feedback are those of SpecPipeline)
ProcessBatch ==
    /\ run.worker_pc = "batch"
    /\ LET pending == GetPendingFeedback(run.feedback_store, run.processed_feedback)
       IN  run' = [run EXCEPT !.worker_pc = "sleep",
                             !.all_feedback = run.feedback_store,
                             !.processed_feedback = @ \cup pending,
                             !.submitted =
                                 IF pending = {} THEN @
                                 ELSE @ \o (CHOOSE order \in [1..Cardinality(pending) -> pending] :
                                               {order[k] : k \in DOMAIN order} = pending)]
    /\ UNCHANGED <<store, disk, now, nextId, faults, ret, obs, callers>>

\* line 39: asyncio.sleep(processing_interval) returns and the loop goes
\* into its next round
WorkerSleep ==
    /\ run.worker_pc = "sleep"
    /\ run' = [run EXCEPT !.worker_pc = "batch"]
    /\ UNCHANGED <<store, disk, now, nextId, faults, ret, obs, callers>>

\* the worker beside a feedback store that fills
NextWorker ==
    \/ \E id \in {"fb-1", "fb-2", "fb-3"} : SaveFeedback(id)
    \/ ProcessBatch
    \/ WorkerSleep

\* the loop runs for as long as is_running is set (line 36)
SpecWorker ==
    Init /\ [][NextWorker]_vars /\ WF_vars(ProcessBatch) /\ WF_vars(WorkerSleep)

---------------------------------------------------------------------------
(* fastapi_chatbot.py: the /chat and /feedback endpoints and the pipeline  *)
(* runs they start, on the one event loop of the server. A coroutine keeps *)
(* the loop until it awaits something that suspends it: chat_with_bot and  *)
(* submit_feedback hold no await at all, and the coroutines that           *)
(* process_feedback awaits (_run_reflector, _run_curator, _apply_updates,  *)
(* _update_bullet_counters) hold none either, so that a run that has       *)
(* started goes to its return statement before the loop takes up the next  *)
(* handler or task.                                                        *)

\* submit_feedback (lines 394-462): without the chat turn of the feedback
\* id the handler answers 404 (lines 421-426); otherwise the record is
\* saved and, if save_feedback returned True (saved), create_task puts a
\* process_feedback call for the id on the loop (line 458)
SubmitFeedback(feedback_id, chat_found, saved) ==
    /\ run.pc = "idle"
    /\ obs.op = "none"
    /\ Len(run.tasks) < MaxTasks
    /\ run' = IF chat_found /\ saved
              THEN [run EXCEPT !.feedback_store = @ \cup {feedback_id},
                               !.tasks = Append(@, feedback_id)]
              ELSE run
    /\ UNCHANGED <<store, disk, now, nextId, faults, ret, obs, callers>>

\* chat_with_bot (lines 168-212): the search of the store for the message
\* (line 190: retrieve_relevant(request.message, top_k=3))
ChatWithBot(message, embOk) ==
    /\ run.pc = "idle"
    /\ RetrieveRelevant(message, 3, embOk)
    /\ UNCHANGED run

\* the coroutine of a task has returned (ace_pipeline.py, line 139, or the
\* raise of line 151): the loop is free again. Nothing holds the Task of
\* line 458, and its result is dropped
TaskDone ==
    /\ run.pc = "done"
    /\ run.entry = "process_feedback"
    /\ run' = [NoRun EXCEPT !.runs = run.runs, !.updates = run.updates,
                            !.logged = run.logged,
                            !.feedback_store = run.feedback_store,
                            !.tasks = run.tasks]
    /\ UNCHANGED <<store, disk, now, nextId, faults, ret, obs, callers>>

\* the loop takes the tasks in the order of their creation; the feedback
\* submitted is negative feedback on a turn that used the first bullet
NextLoop ==
    \/ \E id \in {"fb-1", "fb-2"}, c \in BOOLEAN, s \in BOOLEAN :
          SubmitFeedback(id, c, s)
    \/ \E q \in Queries, e \in EmbedFaults : ChatWithBot(q, e)
    \/ Return /\ UNCHANGED run
    \/ \E found \in {"raise", "both"} :
          /\ found = "raise" => Budget > 0
          /\ run.runs < Len(run.tasks)
          /\ ProcessFeedback(run.tasks[run.runs + 1], found,
                             [feedback_type |-> "incorrect", rating |-> 1], <<1>>)
    \/ \E t \in LogFaults : RunReflector(~t)
    \/ \E t \in LogFaults : RunCurator(~t)
    \/ \E e \in EmbedFaults : RunCuratorInsights(e)
    \/ ApplyUpdates
    \/ \E id \in Uuid4Prefixes, e \in EmbedFaults, o \in SaveFaults :
          Cost(e, o) <= Budget /\ MergeAdd(id, e, o)
    \/ \E o \in SaveFaults : MergeUpdate(o)
    \/ MergeSkip
    \/ \E w \in LogFaults, s \in DeltaLogNames : MergeSaveLog(w, s)
    \/ UpdateBulletCounters
    \/ \E o \in SaveFaults : UsageUpdate(o)
    \/ \E o \in SaveFaults : UsageSave(o)
    \/ \E w \in LogFaults : ReturnResult(w)
    \/ TaskDone

SpecLoop == Init /\ [][NextLoop]_vars

---------------------------------------------------------------------------
(* A later construction on the files the process left behind.              *)

\* PlaybookManager() in a new process (lines 59-61, 79): an empty store,
\* then load_playbook on the files as they are. metaOk says whether
\* metadata.json parses (the except clause of line 399 empties bullets and
\* map otherwise), readOk whether faiss.read_index succeeds, failed is the
\* set of positions whose embedding call throws in a rebuild
Startup(metaOk, readOk, failed) ==
    /\ obs.op = "none"
    /\ run.pc = "idle"
    /\ metaOk \/ disk.metadata_file.exists
    /\ readOk \/ (metaOk /\ disk.metadata_file.exists /\ disk.embeddings_file.exists)
    /\ LET rebuilds == /\ metaOk
                       /\ disk.metadata_file.exists
                       /\ ~(disk.embeddings_file.exists /\ readOk)
           loaded == IF metaOk THEN LoadPlaybook(disk, readOk, failed)
                     ELSE LoadPlaybook(EmptyDisk, TRUE, {})
       IN  /\ failed \subseteq (IF rebuilds
                                THEN 0..(Len(disk.metadata_file.bullets) - 1) ELSE {})
           /\ faults' = faults + (IF metaOk THEN 0 ELSE 1) + (IF readOk THEN 0 ELSE 1)
                               + Cardinality(failed)
           /\ faults' <= MaxFaults
           /\ bullets' = loaded.bullets
           /\ bullet_id_to_index' = loaded.bullet_id_to_index
           /\ index' = loaded.index
           /\ ret' = [op |-> "load_playbook", raised |-> ~metaOk, flag |-> readOk,
                      calls |-> IF rebuilds THEN Len(loaded.bullets) ELSE 0] @@ NoRet
    /\ UNCHANGED <<disk, now, nextId, obs, callers, run>>

NextLoad ==
    \/ \E id \in Uuid4Prefixes, c \in Contents, s \in Sections,
          e \in EmbedFaults, o \in SaveFaults :
          Cost(e, o) <= Budget /\ AddBullet(id, c, s, e, o) /\ UNCHANGED run
    \/ \E id \in 1..nextId, h \in BOOLEAN, o \in SaveFaults :
          UpdateCounters(id, h, o) /\ UNCHANGED run
    \/ \E m \in BOOLEAN, r \in BOOLEAN, f \in SUBSET (0..(MaxBullets - 1)) :
          Startup(m, r, f)

SpecLoad == Init /\ [][NextLoad]_vars

---------------------------------------------------------------------------
(* Properties.                                                             *)

\* the vectors the index can hold for a bullet: that of its content, or
\* the zero vector stored when the provider failed
VectorsOf(b) == {NormalizeEmbedding(GetEmbedding(b.content, ok)) : ok \in BOOLEAN}

\* every bullet has its vector at its position and the map sends its id there
Lockstep(bs, map, idx) ==
    /\ Len(bs) = Len(idx)
    /\ DOMAIN map = HeldIds(bs)
    /\ \A i \in 1..Len(bs) : map[bs[i].id] = i - 1 /\ idx[i] \in VectorsOf(bs[i])

\* an id maps to a position that does not hold a bullet of that id, or a
\* position holds no vector or a vector that is not its bullet's
OutOfStep(bs, map, idx) ==
    \/ \E id \in DOMAIN map : map[id] + 1 > Len(bs) \/ bs[map[id] + 1].id # id
    \/ Len(bs) # Len(idx)
    \/ \E i \in 1..Min(Len(bs), Len(idx)) : idx[i] \notin VectorsOf(bs[i])

DistinctIds(bs) == Cardinality(HeldIds(bs)) = Len(bs)

\* the sum of helpful + harmful over a bullet list
RECURSIVE TotalCount(_)
TotalCount(bs) ==
    IF bs = <<>> THEN 0
    ELSE Head(bs).helpful + Head(bs).harmful + TotalCount(Tail(bs))

\* the bullet the last add_bullet call appended
Newest == bullets[Len(bullets)]

Occurs(b, bs) == \E i \in 1..Len(bs) : bs[i] = b

\* C1: after any sequence of add_bullet and deduplicate calls run one at a
\* time, there are as many vectors as bullets and the id map sends the id
\* of every bullet to the position that holds that bullet, so to a
\* different position for each bullet.
C1_Lockstep == Lockstep(bullets, bullet_id_to_index, index)

\* C1, what does hold: the lists have the same length, every vector is its
\* bullet's, every id in the map leads to a bullet of that id, and the map
\* is exact whenever no two bullets share an id.
C1_LockstepOfDistinctIds ==
    /\ ~OutOfStep(bullets, bullet_id_to_index, index)
    /\ DOMAIN bullet_id_to_index = HeldIds(bullets)
    /\ DistinctIds(bullets) => Lockstep(bullets, bullet_id_to_index, index)

\* C1: two bullets with one id, reached by add_bullet alone
C1_Collision ==
    /\ ret.op = "add_bullet"
    /\ ~DistinctIds(bullets)
    /\ ~Lockstep(bullets, bullet_id_to_index, index)

\* C2: when the statements of two calls interleave, the map and the index
\* can be left out of step with the bullets once both calls have returned;
\* it takes an overlap of two calls to get there.
C2_OutOfStepOnlyByOverlap ==
    ((\A p \in Procs : pc[p] = "idle")
        /\ OutOfStep(bullets, bullet_id_to_index, index)) => overlap

\* C2: both callers have returned, every bullet has an id of its own, and
\* an id maps to a position that holds another bullet
C2_OutOfStepReached ==
    /\ \A p \in Procs : pc[p] = "idle"
    /\ DistinctIds(bullets)
    /\ \E id \in DOMAIN bullet_id_to_index :
          /\ bullet_id_to_index[id] + 1 <= Len(bullets)
          /\ bullets[bullet_id_to_index[id] + 1].id # id

\* C3: no bullet with harmful > helpful is in the result of a search.
C3_HarmfulNeverReturned ==
    obs.op = "retrieve_relevant" =>
        \A i \in 1..Len(obs.result) : ~(obs.result[i].harmful > obs.result[i].helpful)

\* C3: a search whose nearest neighbour is a harmful bullet
C3_HarmfulNeighbourDropped ==
    /\ obs.op = "retrieve_relevant"
    /\ obs.neighbours # <<>>
    /\ bullets[obs.neighbours[1] + 1].harmful > bullets[obs.neighbours[1] + 1].helpful
    /\ obs.result # <<>>

\* C4: deduplicate leaves the sum of helpful + harmful over the store as it
\* was before the call, for every threshold, chains of merges included.
C4_DedupConservesCounters ==
    ret.op = "deduplicate" => TotalCount(bullets) = TotalCount(ret.base)

\* C4: of three bullets the first absorbed the second, which had votes, and
\* was then absorbed by the third
C4_ChainAbsorbed ==
    /\ ret.op = "deduplicate"
    /\ Len(ret.base) = 3
    /\ ret.count = 2
    /\ Len(bullets) = 1
    /\ bullets[1].id = ret.base[3].id
    /\ RatioGE(ret.base[1], ret.base[2])
    /\ ret.base[2].helpful + ret.base[2].harmful > 0
    /\ ret.base[1].helpful + ret.base[1].harmful > 0

\* C5: an unbroken run of n calls update_counters(id, helpful) on a known
\* id has raised that bullet's helpful (harmful, for helpful = False) by
\* exactly n, left its other counter as it was, and left the counters of
\* every other bullet as they were.
C5_UpdateCountsExactly ==
    (ret.op = "update_counters" /\ ret.n > 0) =>
        /\ ret.id \in DOMAIN bullet_id_to_index
        /\ Len(bullets) = Len(ret.base)
        /\ \A i \in 1..Len(bullets) :
              LET hit == (i = bullet_id_to_index[ret.id] + 1)
              IN  /\ bullets[i].helpful =
                        ret.base[i].helpful + (IF hit /\ ret.helpful THEN ret.n ELSE 0)
                  /\ bullets[i].harmful =
                        ret.base[i].harmful + (IF hit /\ ~ret.helpful THEN ret.n ELSE 0)

\* C5: two calls in a row on one bullet of several
C5_TwoUpdatesInARow ==
    /\ ret.op = "update_counters"
    /\ ret.n = 2
    /\ Len(bullets) >= 2

C8_EmptyStoreSearch ==
    (obs.op = "retrieve_relevant" /\ bullets = <<>>) =>
        obs.result = <<>> /\ obs.calls = 0

\* C8: a search of the empty store
C8_EmptyStoreSearched ==
    /\ obs.op = "retrieve_relevant"
    /\ bullets = <<>>
    /\ obs.top_k = MaxTopK

\* C9: update_counters with an id that is not in the map returns False,
\* does not raise, and leaves the bullets (counters and last_used
\* included), the map, the index and the files as they were.
C9_UnknownIdChangesNothing ==
    [][\A id \in 1..nextId, h \in BOOLEAN :
          (id \notin DOMAIN bullet_id_to_index /\ UpdateCounters(id, h, "ok")) =>
              /\ ret'.flag = FALSE
              /\ ~ret'.raised
              /\ UNCHANGED <<store, disk>>]_vars

\* C9: the call with an unknown id has returned, on a store with bullets
\* and files
C9_UnknownIdCalled ==
    /\ ret.op = "update_counters"
    /\ ret.id \notin DOMAIN bullet_id_to_index
    /\ bullets # <<>>
    /\ disk.metadata_file.exists

\* C10: process_insights on an insight of confidence at most 0.5 returns a
\* delta with no operations and total_operations = 0, makes no search, and
\* leaves the store and the files as they were, for every store.
C10_LowConfidenceEmptyDelta ==
    [][(obs'.op = "process_insights"
            /\ obs'.insight.confidence <= AcceptConfidence) =>
          /\ obs'.delta.operations = <<>>
          /\ obs'.delta.total_operations = 0
          /\ obs'.calls = 0
          /\ UNCHANGED <<store, disk>>]_vars

\* C10: an insight of confidence 0.4 processed on a store with bullets
\* one of which would have matched
C10_LowConfidenceProcessed ==
    /\ obs.op = "process_insights"
    /\ obs.insight.confidence = 40
    /\ \E i \in 1..Len(bullets) : Relevant(bullets[i])

\* the search result retrieve_relevant builds from the neighbours the index
\* gave: those with helpful >= harmful, in the neighbours' order
Candidates(near) ==
    SelectSeq([i \in 1..Len(near) |-> bullets[near[i] + 1]],
              LAMBDA b : b.helpful >= b.harmful)

\* C11: for an insight of confidence above 0.5 the delta has exactly one
\* operation. When the store search for the key insight returns a bullet,
\* it is an UPDATE of the first bullet returned, with helpful_increment 1
\* for a confidence above 0.7 and 0 otherwise and harmful_increment 0; when
\* the search returns nothing (or the store is empty), it is an ADD.
C11_OneOperationPerAcceptedInsight ==
    (obs.op = "process_insights" /\ obs.insight.confidence > AcceptConfidence) =>
        LET ops == obs.delta.operations
            found == Candidates(obs.neighbours)
        IN  /\ Len(ops) = 1
            /\ obs.delta.total_operations = 1
            /\ found # <<>> =>
                  /\ ops[1].operation = "UPDATE"
                  /\ ops[1].bullet_id = found[1].id
                  /\ ops[1].helpful_increment =
                        (IF obs.insight.confidence > HighConfidence THEN 1 ELSE 0)
                  /\ ops[1].harmful_increment = 0
            /\ found = <<>> =>
                  /\ ops[1].operation = "ADD"
                  /\ ops[1].bullet_id = 0

\* C11: both confidences met a store whose search returned a bullet after
\* dropping a nearer one: an insight of confidence 0.6 gave an UPDATE with
\* helpful_increment 0
C11_UpdateWithoutIncrement ==
    /\ obs.op = "process_insights"
    /\ obs.insight.confidence = 60
    /\ Len(Candidates(obs.neighbours)) < Len(obs.neighbours)
    /\ obs.delta.operations # <<>>
    /\ obs.delta.operations[1].operation = "UPDATE"
    /\ obs.delta.operations[1].helpful_increment = 0

\* n copies of x in a row
Repeat(x, n) == [i \in 1..n |-> x]

\* the store calls merge_delta is to issue for operation k of a delta
CallsOf(op, k) ==
    IF op.operation = "ADD"
    THEN <<[k |-> k, call |-> "add_bullet", helpful |-> FALSE]>>
    ELSE IF op.operation = "UPDATE" /\ op.bullet_id # 0
    THEN Repeat([k |-> k, call |-> "update_counters", helpful |-> TRUE],
                op.helpful_increment)
         \o Repeat([k |-> k, call |-> "update_counters", helpful |-> FALSE],
                   op.harmful_increment)
    ELSE <<>>

\* the calls for the first n operations of a delta, in list order
RECURSIVE CallsUpTo(_, _)
CallsUpTo(ops, n) ==
    IF n = 0 THEN <<>> ELSE CallsUpTo(ops, n - 1) \o CallsOf(ops[n], n)

\* the store calls issued so far, without their outcome
Issued ==
    [i \in 1..Len(run.calls) |->
        [k |-> run.calls[i].k, call |-> run.calls[i].call,
         helpful |-> run.calls[i].helpful]]

\* the update_counters calls issued so far that found the bullet at pos
UnitsAt(pos, helpful) ==
    Cardinality({i \in 1..Len(run.calls) :
                    /\ run.calls[i].call = "update_counters"
                    /\ run.calls[i].pos = pos
                    /\ run.calls[i].helpful = helpful})

\* every counter in the store is what it was when the call began (0 for a
\* bullet added since) plus the unit increments issued on its position
CountersFollowCalls ==
    \A i \in 1..Len(bullets) :
        LET was == IF i <= Len(run.base) THEN run.base[i]
                   ELSE [helpful |-> 0, harmful |-> 0]
        IN  /\ bullets[i].helpful = was.helpful + UnitsAt(i - 1, TRUE)
            /\ bullets[i].harmful = was.harmful + UnitsAt(i - 1, FALSE)

\* the add_bullet calls issued so far
Added == Cardinality({i \in 1..Len(run.calls) : run.calls[i].call = "add_bullet"})

\* C12: merge_delta issues its store calls in the order of the list: one
\* add_bullet call per ADD, and per UPDATE of a bullet helpful_increment
\* update_counters(helpful) calls followed by harmful_increment
\* update_counters(not helpful) calls. When it returns True every ADD has
\* added one bullet, and the helpful and harmful of every bullet have grown
\* by exactly the units issued on it: by helpful_increment and
\* harmful_increment for the target of one UPDATE.
C12_MergeAppliesInListOrder ==
    (run.entry = "merge_delta" /\ run.pc = "merged" /\ run.success) =>
        LET ops == run.delta.operations
        IN  /\ Issued = CallsUpTo(ops, Len(ops))
            /\ Len(bullets) = Len(run.base) + Added
            /\ CountersFollowCalls
            /\ \A k \in 1..Len(ops) :
                  (ops[k].operation = "UPDATE"
                      /\ ops[k].bullet_id \in HeldIds(run.base)
                      /\ \A j \in 1..Len(ops) : j # k => ops[j].operation # "UPDATE"
                      /\ DistinctIds(bullets)) =>
                      LET pos == bullet_id_to_index[ops[k].bullet_id] + 1
                      IN  /\ bullets[pos].helpful =
                                run.base[pos].helpful + ops[k].helpful_increment
                          /\ bullets[pos].harmful =
                                run.base[pos].harmful + ops[k].harmful_increment

\* C12: a merge of an ADD followed by an UPDATE with one helpful and one
\* harmful unit has returned True
C12_AddThenBothUnits ==
    /\ run.entry = "merge_delta"
    /\ run.pc = "merged"
    /\ run.success
    /\ Len(run.delta.operations) = 2
    /\ run.delta.operations[1].operation = "ADD"
    /\ run.delta.operations[2].operation = "UPDATE"
    /\ run.delta.operations[2].harmful_increment = 1
    /\ Len(run.calls) = 3

\* the store calls issued so far that raised
Raised == {i \in 1..Len(run.calls) : run.calls[i].raised}

\* C13: when a store call made for operation k raises, merge_delta returns
\* False and does not raise; the calls for operations 1..k-1 were all
\* issued and their effect is in the store (the bullets added, the units
\* counted), and no call is issued for a later operation.
C13_FailureKeepsEarlierOperations ==
    (run.entry = "merge_delta" /\ Raised # {}) =>
        LET ops == run.delta.operations
            last == run.calls[Len(run.calls)]
            k == last.k
            own == CallsOf(ops[k], k)
            before == CallsUpTo(ops, k - 1)
        IN  /\ run.pc = "merged"
            /\ ~run.success
            /\ Raised = {Len(run.calls)}
            /\ Len(Issued) > Len(before)
            /\ Len(Issued) <= Len(before) + Len(own)
            /\ Issued = SubSeq(before \o own, 1, Len(Issued))
            /\ Len(bullets) = Len(run.base) + Added
            /\ CountersFollowCalls

\* C13: the second operation of a delta raised after the first had added
\* a bullet, and a third call was still to come
C13_SecondOperationRaised ==
    /\ run.entry = "merge_delta"
    /\ run.pc = "merged"
    /\ ~run.success
    /\ Len(run.calls) = 2
    /\ run.calls[1].call = "add_bullet"
    /\ run.calls[2].raised
    /\ run.delta.operations[2].helpful_increment = 2
    /\ Len(bullets) = Len(run.base) + 1

\* the steps of a process_feedback call that finds the record and the turn
FullPath == <<"fetch_feedback", "fetch_chat", "reflect", "curate", "merge", "usage", "done">>

TimesUsed(i) ==
    Cardinality({u \in 1..Len(run.used_bullets) :
                    /\ run.used_bullets[u] \in DOMAIN bullet_id_to_index
                    /\ bullet_id_to_index[run.used_bullets[u]] = i - 1})

\* net-positive and net-negative feedback as the specification defines them
NetPositive(fb) ==
    (fb.rating # NoRating /\ fb.rating >= 4) \/ fb.feedback_type = "positive"
NetNegative(fb) ==
    (fb.rating # NoRating /\ fb.rating <= 2) \/ fb.feedback_type = "incorrect"

\* the counters have changed since the usage step began by one helpful per
\* use for net-positive feedback, one harmful per use for net-negative
\* feedback that is not net-positive too, and not at all otherwise
UsageCounted ==
    /\ Len(bullets) = Len(run.usage_base)
    /\ \A i \in 1..Len(bullets) :
          /\ bullets[i].helpful = run.usage_base[i].helpful
                + (IF NetPositive(run.feedback) THEN TimesUsed(i) ELSE 0)
          /\ bullets[i].harmful = run.usage_base[i].harmful
                + (IF NetNegative(run.feedback) /\ ~NetPositive(run.feedback)
                   THEN TimesUsed(i) ELSE 0)

\* C15: when the usage step is over (and no write failed), every bullet
\* surfaced in the chat turn has helpful one higher for net-positive
\* feedback (rating >= 4 or type "positive"), harmful one higher for
\* net-negative feedback (rating <= 2 or type "incorrect"), and no counter
\* has changed for rating 3 or another type: for every feedback record,
\* one with a type and no rating included.
C15_UsageCountersFollowFeedback ==
    (run.entry = "process_feedback" /\ run.pc \in {"result", "done"}
        /\ Len(run.steps) >= 6 /\ faults = 0) => UsageCounted

\* C15, what does hold: the same for every feedback record with a rating.
C15_RatedFeedbackCounted ==
    (run.entry = "process_feedback" /\ run.pc \in {"result", "done"}
        /\ Len(run.steps) >= 6 /\ faults = 0 /\ run.feedback.rating # NoRating) =>
        UsageCounted

\* C15: feedback of type "incorrect" without a rating has been processed
\* and the harmful counter of the bullet it used is what it was
C15_UnratedIncorrectNotCounted ==
    /\ run.entry = "process_feedback"
    /\ run.pc = "done"
    /\ faults = 0
    /\ run.feedback = [feedback_type |-> "incorrect", rating |-> NoRating]
    /\ run.used_bullets = <<1>>
    /\ 1 \in DOMAIN bullet_id_to_index
    /\ run.usage_caught
    /\ bullets = run.usage_base

\* the bullet get_bullet(id) gives in the store bs with the id map of bs
BulletOf(bs, id) == bs[IdMap(bs)[id] + 1]

\* C16: after process_feedback of a feedback with rating 5 whose chat turn
\* used the stored bullets 1 and 2, both have helpful one higher than
\* before the call and harmful as before.
C16_RatingFiveCountsOnce ==
    (run.entry = "process_feedback" /\ run.pc = "done"
        /\ run.feedback.rating = 5 /\ run.used_bullets = <<1, 2>>
        /\ {1, 2} \subseteq HeldIds(run.base)) =>
        \A id \in {1, 2} :
            /\ BulletOf(bullets, id).helpful = BulletOf(run.base, id).helpful + 1
            /\ BulletOf(bullets, id).harmful = BulletOf(run.base, id).harmful

\* C16, what does hold: the same when the feedback is not of type
\* "incorrect", no write fails and no id is drawn twice.
C16_ConsistentRatingFiveCountsOnce ==
    (run.entry = "process_feedback" /\ run.pc = "done"
        /\ run.feedback.rating = 5 /\ run.used_bullets = <<1, 2>>
        /\ {1, 2} \subseteq HeldIds(run.base)
        /\ run.feedback.feedback_type # "incorrect"
        /\ faults = 0 /\ DistinctIds(bullets)) =>
        \A id \in {1, 2} :
            /\ BulletOf(bullets, id).helpful = BulletOf(run.base, id).helpful + 1
            /\ BulletOf(bullets, id).harmful = BulletOf(run.base, id).harmful

\* C16: rating 5 with type "incorrect": no failure, no id drawn twice, and
\* a used bullet has helpful two higher than before the call, one from the
\* UPDATE of the delta and one from the usage step
C16_CountedTwice ==
    /\ run.entry = "process_feedback"
    /\ run.pc = "done"
    /\ run.feedback.rating = 5
    /\ run.used_bullets = <<1, 2>>
    /\ {1, 2} \subseteq HeldIds(run.base)
    /\ faults = 0
    /\ DistinctIds(bullets)
    /\ run.result.success
    /\ \E id \in {1, 2} :
          BulletOf(bullets, id).helpful = BulletOf(run.base, id).helpful + 2

\* C17: when the feedback record is not found the result is success=False
\* with "Feedback not found"; when the chat turn is not found it is
\* success=False with "Chat data not found". In both cases the three
\* counts are 0, no later step is taken, no fetch is repeated, and no call
\* is made on the store, whose bullets, map, index and files stay as loaded.
C17_NotFoundShortCircuits ==
    (run.entry = "process_feedback" /\ run.found \in {"nothing", "feedback"}) =>
        /\ run.pc = "done"
        /\ run.result = FailedResult(run.feedback_id,
                                     IF run.found = "nothing" THEN "Feedback not found"
                                     ELSE "Chat data not found")
        /\ run.steps = IF run.found = "nothing" THEN <<"fetch_feedback">>
                       ELSE <<"fetch_feedback", "fetch_chat">>
        /\ run.calls = <<>>
        /\ ret = NoRet
        /\ bullets = run.base
        /\ disk \in SavedDisks
        /\ LoadPlaybook(disk, TRUE, {}) =
              [bullets |-> bullets, bullet_id_to_index |-> bullet_id_to_index,
               index |-> index]

\* C17: the chat turn of a feedback record was not found, with bullets in
\* the store
C17_ChatNotFound ==
    /\ run.entry = "process_feedback"
    /\ run.found = "feedback"
    /\ run.pc = "done"
    /\ bullets # <<>>

\* C18: when the Reflector call throws, the Curator step gets no insight
\* and gives a delta without operations, the merge makes no call on the
\* store, and the result has success=True and the three counts 0.
C18_ThrownReflectionIsNoInsight ==
    (run.entry = "process_feedback" /\ Len(run.steps) >= 3 /\ ~run.has_insight) =>
        /\ run.delta.operations = <<>>
        /\ run.calls = <<>>
        /\ (run.pc \in {"usage", "result", "done"}) => run.success
        /\ run.pc \in {"merge", "merged"} => bullets = run.base
        /\ run.pc \in {"usage", "result", "done"} => run.usage_base = run.base
        /\ run.pc = "done" =>
              run.result = [success |-> TRUE, feedback_id |-> run.feedback_id,
                            insights_generated |-> 0, bullets_added |-> 0,
                            bullets_updated |-> 0, error_message |-> "None"]

\* C18: analyze_feedback threw for a feedback of rating 1, and the call
\* has returned after the usage step counted a used bullet harmful
C18_ReflectionThrown ==
    /\ run.entry = "process_feedback"
    /\ run.pc = "done"
    /\ ~run.has_insight
    /\ run.feedback.rating = 1
    /\ run.steps = FullPath
    /\ bullets # run.base

\* C19: process_feedback does not raise: whatever fails (the feedback
\* store, the Reflector, the Curator, an add or update of the store, a
\* file write, the log write), it returns a result record for its feedback
\* id, a failed one when the fetch or the merge failed; so the loop over a
\* batch collects one result per item in order and goes on to the next
\* item after a failed one.
C19_NeverRaises ==
    /\ ~run.raised
    /\ Len(run.results) = (IF run.pc = "idle" THEN run.runs ELSE run.runs - 1)
    /\ \A n \in 1..Len(run.results) :
          /\ DOMAIN run.results[n] = DOMAIN FailedResult("fb-1", "None")
          /\ run.results[n].feedback_id = PendingFeedback[n]
          /\ run.results[n].success \in BOOLEAN
    /\ run.pc = "done" =>
          /\ DOMAIN run.result = DOMAIN FailedResult("fb-1", "None")
          /\ run.result.feedback_id = run.feedback_id
          /\ (run.found # "both" \/ ~run.success) => ~run.result.success

\* C19: the second item of a batch has been processed after get_feedback
\* raised for the first, and after the first failed in its merge
C19_BatchGoesOn ==
    /\ Len(run.results) = 2
    /\ ~run.results[1].success
    /\ run.results[1].error_message \in {"get_feedback", "None"}
    /\ run.results[2].success
    /\ bullets # <<>>

\* what load_playbook found for the index: no file, a file that cannot be
\* read, or a file whose vector count differs from the metadata's bullets
IndexFileMissing == disk.metadata_file.exists /\ ~disk.embeddings_file.exists
IndexFileUnreadable == disk.embeddings_file.exists /\ ~ret.flag
IndexFileStale ==
    /\ disk.embeddings_file.exists
    /\ ret.flag
    /\ Len(disk.embeddings_file.vectors) # Len(disk.metadata_file.bullets)

\* the store has one vector per bullet and the map knows every bullet's id
Consistent ==
    /\ Len(index) = Len(bullets)
    /\ \A i \in 1..Len(bullets) : bullets[i].id \in DOMAIN bullet_id_to_index

\* C20: after load_playbook at startup the number of bullets equals the
\* number of vectors in the index and the id -> position map covers every
\* bullet, whatever the persisted files are: index file missing, unreadable
\* or holding a different number of vectors than the metadata (as after a
\* failure between the metadata write and the index write of
\* save_playbook); in these cases the index is rebuilt from the bullets.
C20_LoadedStoreConsistent ==
    (ret.op = "load_playbook" /\ ~ret.raised) =>
        /\ Consistent
        /\ (IndexFileMissing \/ IndexFileUnreadable \/ IndexFileStale) =>
              /\ ret.calls = Len(bullets)
              /\ \A i \in 1..Len(bullets) : index[i] \in VectorsOf(bullets[i])

\* C20: when the index file is missing or unreadable, or has as many
\* vectors as there are bullets in the metadata, the loaded store has one
\* vector per bullet and a map covering every bullet; a missing or
\* unreadable file is rebuilt with one embedding call per bullet
C20_RebuiltWhenMissingOrUnreadable ==
    (ret.op = "load_playbook" /\ ~IndexFileStale) =>
        /\ Consistent
        /\ (~ret.raised /\ (IndexFileMissing \/ IndexFileUnreadable)) =>
              ret.calls = Len(bullets)

\* C20: a load has found an index file with fewer vectors than the metadata
\* has bullets and has taken it as it is
C20_StaleIndexLoaded ==
    /\ ret.op = "load_playbook"
    /\ IndexFileStale
    /\ index = disk.embeddings_file.vectors
    /\ Len(index) < Len(bullets)
    /\ Cardinality(HeldIds(bullets)) = Len(bullets)
    /\ ret.calls = 0

\* the vector stored or searched with when the embedding call threw
ZeroVector == NormalizeEmbedding(GetEmbedding(<<>>, FALSE))

\* the files hold what the store holds
Saved ==
    /\ disk.metadata_file.exists /\ disk.metadata_file.bullets = bullets
    /\ disk.embeddings_file.exists /\ disk.embeddings_file.vectors = index

\* C21: a failure of the embedding provider is never surfaced. add_bullet
\* appends the bullet and a vector for it (the zero vector when the call
\* threw), has saved the store when it returns, and does not raise when the
\* failed embedding call is the only failure; a search gives a result of
\* stored bullets, and with the zero query vector and top_k covering the
\* store every bullet that is not net harmful; the rebuild of deduplicate
\* leaves exactly one vector per bullet, each the bullet's own or the zero
\* vector, whichever embedding calls failed.
C21_EmbeddingFailureAbsorbed ==
    /\ ret.op = "add_bullet" =>
          /\ Len(index) = Len(bullets)
          /\ bullets[Len(bullets)].id = ret.id
          /\ index[Len(index)] \in VectorsOf(bullets[Len(bullets)])
          /\ ~ret.raised => Saved
          /\ (/\ index[Len(index)] = ZeroVector
              /\ NormalizeEmbedding(GetEmbedding(bullets[Len(bullets)].content, TRUE))
                    # ZeroVector
              /\ faults = 1) => ~ret.raised
    /\ obs.op = "retrieve_relevant" =>
          /\ \A i \in 1..Len(obs.result) : Occurs(obs.result[i], bullets)
          /\ (obs.qvec = ZeroVector /\ obs.top_k >= Len(bullets)) =>
                \A i \in 1..Len(bullets) :
                    Relevant(bullets[i]) => Occurs(bullets[i], obs.result)
    /\ ret.op = "deduplicate" =>
          /\ Len(bullets) = Len(ret.base) - ret.count
          /\ Len(index) = Len(bullets)
          /\ \A i \in 1..Len(bullets) : index[i] \in VectorsOf(bullets[i])

\* C21: deduplicate removed a bullet and an embedding call of its rebuild
\* threw: a kept bullet has the zero vector
C21_RebuildWithFailedEmbedding ==
    /\ ret.op = "deduplicate"
    /\ ret.count > 0
    /\ ~ret.raised
    /\ \E i \in 1..Len(bullets) :
          /\ index[i] = ZeroVector
          /\ NormalizeEmbedding(GetEmbedding(bullets[i].content, TRUE)) # ZeroVector

\* b and c are one bullet at two moments: the id and the creation stamp
\* given by add_bullet
SameBullet(b, c) == b.id = c.id /\ b.created_at = c.created_at

\* no bullet that stays in the store loses a helpful or a harmful vote
NoCounterLowered ==
    \A i \in 1..Len(bullets) : \A j \in 1..Len(bullets') :
        SameBullet(bullets[i], bullets'[j]) =>
            /\ bullets'[j].helpful >= bullets[i].helpful
            /\ bullets'[j].harmful >= bullets[i].harmful

\* C22: in every reachable state the helpful and harmful counters of every
\* bullet are integers >= 0, and no operation lowers the helpful or the
\* harmful counter of a bullet that remains in the store.
C22_CountersNeverLowered ==
    /\ [](\A i \in 1..Len(bullets) : bullets[i].helpful \in Nat /\ bullets[i].harmful \in Nat)
    /\ [][NoCounterLowered]_vars

\* C22: deduplicate removed one of two bullets and the one that stays has
\* more helpful votes than it had before the call
C22_SurvivorGained ==
    /\ ret.op = "deduplicate"
    /\ ret.count = 1
    /\ Len(bullets) = 1
    /\ \E i \in 1..Len(ret.base) :
          /\ SameBullet(ret.base[i], bullets[1])
          /\ bullets[1].helpful > ret.base[i].helpful
          /\ ret.base[i].helpful > 0

\* every bullet whose helpful or harmful counter changes in the step has
\* its last_used set to the time of the step
CounterChangeStamped ==
    \A i \in 1..Len(bullets) : \A j \in 1..Len(bullets') :
        (/\ SameBullet(bullets[i], bullets'[j])
         /\ \/ bullets'[j].helpful # bullets[i].helpful
            \/ bullets'[j].harmful # bullets[i].harmful)
        => bullets'[j].last_used = now

\* C23: every change of a bullet's helpful or harmful counter also sets
\* that bullet's last_used to the time of the change, in the same step:
\* update_counters as well as the counter sums deduplicate writes into the
\* surviving bullet.
C23_LastUsedFollowsCounters == [][CounterChangeStamped]_vars

\* C23: every counter change made by a call other than deduplicate sets
\* last_used in the same step
C23_UpdateCountersStamps == [][ret'.op # "deduplicate" => CounterChangeStamped]_vars

\* C23: deduplicate has added a loser's votes to a bullet whose last_used
\* is still what it was before the call
C23_AbsorbedWithoutStamp ==
    /\ ret.op = "deduplicate"
    /\ ret.count > 0
    /\ \E i \in 1..Len(ret.base) : \E j \in 1..Len(bullets) :
          /\ SameBullet(ret.base[i], bullets[j])
          /\ bullets[j].helpful + bullets[j].harmful
                > ret.base[i].helpful + ret.base[i].harmful
          /\ bullets[j].last_used = ret.base[i].last_used

\* the ids of the bullets in list order
IdsOf(bs) == [i \in 1..Len(bs) |-> bs[i].id]

\* the bullets that stay keep their ids: the ids after the step are those
\* before it in the same order, with some left out (deduplicate) or one
\* appended (add_bullet)
IdsKept ==
    IF Len(bullets') >= Len(bullets)
    THEN SubSeq(IdsOf(bullets'), 1, Len(bullets)) = IdsOf(bullets)
    ELSE \E f \in [1..Len(bullets') -> 1..Len(bullets)] :
            /\ \A a, b \in 1..Len(bullets') : a < b => f[a] < f[b]
            /\ \A a \in 1..Len(bullets') : bullets'[a].id = bullets[f[a]].id

\* C24: bullet ids are unique and stable: in every reachable state no two
\* bullets of the store have the same id, add_bullet never returns an id a
\* stored bullet already has, and no operation changes the id of a bullet.
C24_IdsUniqueAndStable ==
    /\ [](DistinctIds(bullets))
    /\ [][Len(bullets') > Len(bullets) => ret'.id \notin HeldIds(bullets)]_vars
    /\ [][IdsKept]_vars

\* C24: no operation changes the id of a bullet that stays in the store,
\* and the id add_bullet returns is the id of the bullet it appended
C24_IdsStable ==
    [][/\ IdsKept
       /\ Len(bullets') > Len(bullets) => bullets'[Len(bullets')].id = ret'.id]_vars

\* C24: add_bullet has returned an id that a bullet stored before the call
\* has, and both bullets are in the store
C24_AddReturnedHeldId ==
    /\ ret.op = "add_bullet"
    /\ ret.id \in HeldIds(ret.base)
    /\ Len(bullets) = Len(ret.base) + 1
    /\ \E i \in 1..Len(ret.base) : bullets[i].id = bullets[Len(bullets)].id

\* the one operation of a delta is an ADD into the given section
OnlyAddInto(delta, section) ==
    /\ delta.total_operations = 1
    /\ Len(delta.operations) = 1
    /\ delta.operations[1].operation = "ADD"
    /\ delta.operations[1].section = section

\* C25: process_negative_feedback returns a delta with exactly one ADD,
\* section "Anti-Patterns" and content "AVOID: <error> ... Instead:
\* <approach>" when the insight's confidence is > 0.6 and an empty delta
\* otherwise; process_positive_feedback returns exactly one ADD with section
\* "Success Patterns" when the confidence is > 0.5 and an empty delta
\* otherwise; neither emits an UPDATE or touches the store.
C25_FeedbackPaths ==
    /\ [](obs.op = "process_negative_feedback" =>
            IF obs.insight.confidence > 60
            THEN /\ OnlyAddInto(obs.delta, "Anti-Patterns")
                 /\ StartsWith(obs.delta.operations[1].content,
                               <<"A","V","O","I","D",":"," ">>
                               \o obs.insight.error_identification)
                 /\ Contains(obs.delta.operations[1].content,
                             <<"I","n","s","t","e","a","d",":"," ">>
                             \o obs.insight.correct_approach)
            ELSE obs.delta.operations = <<>> /\ obs.delta.total_operations = 0)
    /\ [](obs.op = "process_positive_feedback" =>
            IF obs.insight.confidence > 50
            THEN OnlyAddInto(obs.delta, "Success Patterns")
            ELSE obs.delta.operations = <<>> /\ obs.delta.total_operations = 0)
    /\ [][obs'.op \in {"process_negative_feedback", "process_positive_feedback"}
            => UNCHANGED <<bullets, bullet_id_to_index, index, disk>>]_vars

\* C25: the negative path has refused an insight of confidence 0.6 on a
\* store that holds bullets
C25_NegativeAtThreshold ==
    /\ obs.op = "process_negative_feedback"
    /\ obs.insight.confidence = 60
    /\ obs.delta.operations = <<>>
    /\ bullets # <<>>

\* the delta the Curator step of the run has returned
CuratedDelta == IF obs.op = "process_insights" THEN obs.delta ELSE run.delta

\* the Curator step is done, nothing having failed, for a feedback of
\* rating 1 whose insight has confidence 0.7
NegativeCurated ==
    /\ run.pc = "curated"
    /\ faults = 0
    /\ run.feedback.rating = 1
    /\ run.has_insight
    /\ run.insight.confidence = 70

\* the delta has exactly one ADD into "Anti-Patterns" with content
\* prefixed "AVOID:"
AvoidDelta(delta) ==
    /\ OnlyAddInto(delta, "Anti-Patterns")
    /\ StartsWith(delta.operations[1].content, <<"A","V","O","I","D",":">>)

\* C26: the pipeline chooses the Curator path from the feedback's type and
\* rating: for a feedback with rating 1 and an insight of confidence 0.7
\* the delta the pipeline computes has exactly one ADD with section
\* "Anti-Patterns" and content prefixed "AVOID:", whatever the wording of
\* the insight's text fields.
C26_PathFromRating == NegativeCurated => AvoidDelta(CuratedDelta)

\* C26: for rating 1 and confidence 0.7 the delta is the "AVOID:" ADD when
\* the insight's error_identification contains "error" or "wrong" and
\* neither "success" nor "correct", and is never that ADD otherwise
C26_PathFromWording ==
    NegativeCurated =>
        (AvoidDelta(CuratedDelta) <=>
            LET kind == Lower(run.insight.error_identification)
            IN  /\ \/ Contains(kind, <<"e","r","r","o","r">>)
                   \/ Contains(kind, <<"w","r","o","n","g">>)
                /\ ~Contains(kind, <<"s","u","c","c","e","s","s">>)
                /\ ~Contains(kind, <<"c","o","r","r","e","c","t">>))

\* C26: a feedback of rating 1 and type "incorrect" whose insight has
\* confidence 0.7 and names no error in so many words got a delta with an
\* UPDATE of a stored bullet
C26_NegativeGotUpdate ==
    /\ NegativeCurated
    /\ run.feedback.feedback_type = "incorrect"
    /\ obs.op = "process_insights"
    /\ Len(obs.delta.operations) = 1
    /\ obs.delta.operations[1].operation = "UPDATE"

\* the helpful votes (the harmful votes, for helpful = FALSE) of a list
RECURSIVE Votes(_, _)
Votes(bs, helpful) ==
    IF bs = <<>> THEN 0
    ELSE (IF helpful THEN Head(bs).helpful ELSE Head(bs).harmful)
         + Votes(Tail(bs), helpful)

\* b has the lower helpful/max(harmful,1) ratio of the two
LowerRatio(b, c) ==
    b.helpful * (IF c.harmful > 1 THEN c.harmful ELSE 1)
        < c.helpful * (IF b.harmful > 1 THEN b.harmful ELSE 1)

\* the positions of the bullets of the list before the call that are still
\* in the store, in order
Kept(f) ==
    /\ \A a, b \in 1..Len(bullets) : a < b => f[a] < f[b]
    /\ \A a \in 1..Len(bullets) : SameBullet(bullets[a], ret.base[f[a]])

ConfirmUnits ==
    <<"A","l","w","a","y","s"," ","c","o","n","f","i","r","m"," ","u","n","i","t","s"," ","b","e","f","o","r","e"," ","c","a","l","c","u","l","a","t","i","n","g",".">>

\* the label of the first category of the table one of whose keywords
\* occurs in the text, and the given label when there is none
FirstCategory(text, default) ==
    LET hit == {k \in 1..Len(SectionTable) :
                   \E w \in SectionTable[k].words : Contains(Lower(text), w)}
    IN  IF hit = {} THEN default
        ELSE SectionTable[CHOOSE k \in hit : \A x \in hit : k <= x].label

\* process_insights has returned a delta with an ADD
AddComputed ==
    /\ obs.op = "process_insights"
    /\ Len(obs.delta.operations) = 1
    /\ obs.delta.operations[1].operation = "ADD"

\* C28: the section of an ADD operation is the label of the first category,
\* in the fixed category order, one of whose keywords matches the insight
\* text, and "General" when no category matches; in particular the text
\* "Always confirm units before calculating." gets the section
\* "Calculation Strategies".
C28_SectionByFirstKeyword ==
    AddComputed =>
        /\ obs.delta.operations[1].section = FirstCategory(obs.insight.key_insight, "General")
        /\ obs.insight.key_insight = ConfirmUnits =>
              obs.delta.operations[1].section = "Calculation Strategies"

\* C28: the section of an ADD operation is the label of the first category
\* with a keyword in the insight text, and "General Strategies" when there
\* is none
C28_SectionOrGeneralStrategies ==
    AddComputed =>
        obs.delta.operations[1].section
            = FirstCategory(obs.insight.key_insight, "General Strategies")

\* C28: the ADD computed for "Always confirm units before calculating."
\* has the section "General Strategies"
C28_ConfirmUnitsIsGeneral ==
    /\ AddComputed
    /\ obs.insight.key_insight = ConfirmUnits
    /\ obs.delta.operations[1].content = ConfirmUnits
    /\ obs.delta.operations[1].section = "General Strategies"

\* the text has no brace and no internal field-name token
Clean(text) == \A term \in TechTerms : ~Contains(text, term)

\* every operation of the delta has a content of at least 10 characters
\* without machine-object artifacts
Formatted(delta) ==
    \A k \in 1..Len(delta.operations) :
        /\ Len(delta.operations[k].content) >= 10
        /\ Clean(delta.operations[k].content)

\* C29: the content of every operation emitted by any Curator path
\* (general, negative, positive) is non-empty, at least 10 characters long
\* and free of machine-object artifacts (no brace, no internal field-name
\* token), for every insight, also one whose fields contain such artifacts.
C29_ContentFormatted ==
    obs.op \in {"process_insights", "process_negative_feedback",
                "process_positive_feedback"} => Formatted(obs.delta)

\* C29: every content is at least 10 characters long, and the general path
\* emits a clean content for every insight whose error_identification and
\* correct_approach are clean, whatever its key_insight holds
C29_GeneralPathCleansKeyInsight ==
    /\ obs.op \in {"process_insights", "process_negative_feedback",
                   "process_positive_feedback"} =>
          \A k \in 1..Len(obs.delta.operations) :
              Len(obs.delta.operations[k].content) >= 10
    /\ (/\ obs.op = "process_insights"
        /\ Clean(obs.insight.error_identification)
        /\ Clean(obs.insight.correct_approach)) => Formatted(obs.delta)

\* C29: the positive path has emitted an ADD whose content holds the braces
\* of the key insight
C29_BracesInSuccessPattern ==
    /\ obs.op = "process_positive_feedback"
    /\ Len(obs.delta.operations) = 1
    /\ Contains(obs.delta.operations[1].content, <<"{">>)
    /\ Clean(obs.insight.correct_approach)

\* C29: the general path has emitted a content with the braces of the
\* insight's correct_approach
C29_BracesFromApproach ==
    /\ obs.op = "process_insights"
    /\ Len(obs.delta.operations) = 1
    /\ ~Clean(obs.delta.operations[1].content)
    /\ ~Clean(obs.insight.correct_approach)

\* the merge of a process_feedback call has returned and its delta was one
\* ADD operation
AddMerged ==
    /\ run.entry = "process_feedback"
    /\ run.pc = "merged"
    /\ Len(run.delta.operations) = 1
    /\ run.delta.operations[1].operation = "ADD"

\* C30: a bullet created by merging an ADD operation starts with helpful = 0
\* and harmful = 0 although the ADD of every Curator path carries
\* helpful_increment = 1; the merge applies increments only for UPDATE
\* operations, so the ADD changes no counter of the bullets already stored.
C30_AddedBulletStartsAtZero ==
    AddMerged =>
        /\ run.delta.operations[1].helpful_increment = 1
        /\ run.delta.operations[1].harmful_increment = 0
        /\ Len(bullets) = Len(run.base) + 1
        /\ bullets[Len(bullets)].content = run.delta.operations[1].content
        /\ bullets[Len(bullets)].helpful = 0
        /\ bullets[Len(bullets)].harmful = 0
        /\ \A k \in 1..Len(run.base) :
              /\ bullets[k].helpful = run.base[k].helpful
              /\ bullets[k].harmful = run.base[k].harmful

\* C30: the ADD of the negative path, carrying helpful_increment = 1, has
\* been merged into a store that held bullets, and the merge returned True
C30_AntiPatternAdded ==
    /\ AddMerged
    /\ run.success
    /\ run.base # <<>>
    /\ run.delta.operations[1].helpful_increment = 1
    /\ bullets[Len(bullets)].section = "Anti-Patterns"


\* the merge_delta call that has just returned was given the delta of the
\* call before it, and both returned True
MergedTwice ==
    /\ run.entry = "merge_delta"
    /\ run.pc = "merged"
    /\ run.success
    /\ run.history # <<>>
    /\ run.history[Len(run.history)] = [delta |-> run.delta, success |-> TRUE]

\* the bullets and their counters are those the call in progress found
SameBulletsAndCounters ==
    /\ Len(bullets) = Len(run.base)
    /\ \A i \in 1..Len(bullets) :
          /\ SameBullet(bullets[i], run.base[i])
          /\ bullets[i].content = run.base[i].content
          /\ bullets[i].helpful = run.base[i].helpful
          /\ bullets[i].harmful = run.base[i].harmful

\* the ADD operations of a delta
Adds(delta) ==
    {k \in 1..Len(delta.operations) : delta.operations[k].operation = "ADD"}

\* C31: merging the same delta a second time leaves the set of bullets and
\* every helpful and harmful counter as they were after the first merge.
C31_SecondMergeChangesNothing == MergedTwice => SameBulletsAndCounters

\* C31: the second merge of a delta applies its operations once more: the
\* list grows by one bullet for every ADD of the delta
C31_SecondMergeAppliesAgain ==
    MergedTwice => Len(bullets) = Len(run.base) + Cardinality(Adds(run.delta))

\* C31: a delta of one UPDATE and one ADD merged twice, with one more
\* bullet and one more helpful vote after the second merge than after the
\* first
C31_MergedTwiceAppliedTwice ==
    /\ MergedTwice
    /\ Len(run.delta.operations) = 2
    /\ Len(bullets) = Len(run.base) + 1
    /\ bullets[1].helpful = run.base[1].helpful + 1


\* the merge_delta calls so far that returned True
SuccessfulMerges ==
    Cardinality({k \in 1..Len(run.history) : run.history[k].success})
        + (IF run.pc = "merged" /\ run.success THEN 1 ELSE 0)

\* C32: every merge whose operations all complete appends its own audit
\* record of the whole delta: after any sequence of merges the updates
\* directory holds as many records as merges have returned True, none of
\* them overwritten, also for two merges within the same clock second.
C32_OneRecordPerMerge ==
    run.entry = "merge_delta" => Cardinality(run.updates) = SuccessfulMerges

\* C32: the updates directory changes only once the last operation of the
\* delta has been applied, by a file that holds the whole delta, in a call
\* that returns True; a merge that fails at an operation writes nothing
C32_RecordAfterLastOperation ==
    [][run'.updates # run.updates =>
          /\ run.pc = "merge"
          /\ run.k > Len(run.delta.operations)
          /\ run'.success
          /\ bullets' = bullets
          /\ \E f \in run'.updates : f.log_data = run.delta]_vars

\* C32: two merges have returned True with every file write succeeding,
\* and the updates directory holds one file, that of the second merge
C32_SameSecondOverwritten ==
    /\ run.entry = "merge_delta"
    /\ faults = 0
    /\ SuccessfulMerges = 2
    /\ run.history[1].delta # run.delta
    /\ run.updates = {[name |-> 1, log_data |-> run.delta]}

\* C32: a merge has failed at its second operation and has left the
\* updates directory empty
C32_FailedMergeNotRecorded ==
    /\ run.entry = "merge_delta"
    /\ run.pc = "merged"
    /\ ~run.success
    /\ run.history = <<>>
    /\ Len(run.calls) = 2
    /\ run.updates = {}


\* C33: a file-write failure of save_playbook does not fail the operation:
\* add_bullet still returns the new id and update_counters of a known id
\* still returns True.
C33_WriteFailureDoesNotFail ==
    /\ ret.op = "add_bullet" => ~ret.raised
    /\ (ret.op = "update_counters" /\ ret.n > 0) => (~ret.raised /\ ret.flag)

\* C33: whether or not the save that ends the call could write, the
\* bullets, the counters, the id map and the index are updated in memory
C33_MemoryUpdatedBeforeSave ==
    /\ ret.op = "add_bullet" =>
          /\ Len(bullets) = Len(ret.base) + 1
          /\ Newest.id = ret.id
          /\ bullet_id_to_index[ret.id] = Len(bullets) - 1
          /\ Len(index) = Len(bullets)
    /\ (ret.op = "update_counters" /\ ret.n > 0) =>
          LET pos == bullet_id_to_index[ret.id] + 1
          IN  IF ret.helpful
              THEN bullets[pos].helpful = ret.base[pos].helpful + ret.n
              ELSE bullets[pos].harmful = ret.base[pos].harmful + ret.n

\* C33: in the usage-counter step a write failure on one surfaced bullet
\* does not keep the other surfaced bullets from being incremented: after
\* feedback rated 4 or 5 on a turn that used the stored bullets 1 and 2,
\* both have more helpful votes than before the step
C33_UsageLoopGoesOn ==
    (/\ run.entry = "process_feedback"
     /\ run.pc \in {"result", "done"}
     /\ Len(run.steps) >= 6
     /\ run.feedback.rating >= 4
     /\ run.used_bullets = <<1, 2>>
     /\ {1, 2} \subseteq HeldIds(run.usage_base)) =>
        \A id \in {1, 2} :
            BulletOf(bullets, id).helpful > BulletOf(run.usage_base, id).helpful

\* C33: add_bullet has raised out of a save that wrote nothing, with the
\* new bullet in the list, the map and the index
C33_AddRaisedAfterAppend ==
    /\ ret.op = "add_bullet"
    /\ ret.raised
    /\ Len(bullets) = Len(ret.base) + 1
    /\ Len(index) = Len(bullets)
    /\ ret.id \in DOMAIN bullet_id_to_index
    /\ disk.metadata_file.bullets = ret.base

\* C33: the usage-counter step has left its loop at the write failure of
\* the first surfaced bullet, the second one not incremented
C33_UsageLoopLeft ==
    /\ run.entry = "process_feedback"
    /\ run.pc = "done"
    /\ run.feedback.rating = 5
    /\ run.used_bullets = <<1, 2>>
    /\ {1, 2} \subseteq HeldIds(run.usage_base)
    /\ run.usage_caught
    /\ BulletOf(bullets, 1).helpful = BulletOf(run.usage_base, 1).helpful + 1
    /\ BulletOf(bullets, 2).helpful = BulletOf(run.usage_base, 2).helpful


\* the feedback ids process_feedback has been called with so far
Called == [k \in 1..run.runs |-> PendingFeedback[k]]

\* the results returned so far, in call order
Returned ==
    IF run.pc = "done" /\ ~run.raised THEN Append(run.results, run.result)
    ELSE run.results

\* the feedback ids of the results that are not those of an early return
\* or of the except clause
Completed ==
    LET ran == SelectSeq(Returned, LAMBDA r : r.error_message = "None")
    IN  [k \in 1..Len(ran) |-> ran[k].feedback_id]

\* C34: after any sequence of process_feedback calls the processing log
\* holds exactly one entry per call, in call order, the calls that ended in
\* a failed result (feedback not found, chat turn not found, unexpected
\* exception) included.
C34_EveryResultLogged ==
    (run.entry = "process_feedback" /\ run.pc = "done") => run.logged = Called

\* C34: the processing log holds one entry, in call order, for every call
\* that got as far as building its result after the usage step
C34_CompletedCallsLogged ==
    run.pc \in {"idle", "done"} => run.logged = Completed

\* C34: the first call has returned "Feedback not found", the second has
\* run through, and the log holds the entry of the second call only
C34_NotFoundNotLogged ==
    /\ run.entry = "process_feedback"
    /\ run.pc = "done"
    /\ run.runs = 2
    /\ run.results[1].error_message = "Feedback not found"
    /\ run.result.error_message = "None"
    /\ run.logged = <<"fb-2">>


\* the step is a search, a get or a stats call
ReadOnlyCall ==
    obs.op = "none" /\ obs'.op \in {"retrieve_relevant", "get_bullet", "get_stats"}

\* C35: search, get and stats are read-only: each leaves the bullet list
\* with every bullet's content, section, counters and last_used, the id ->
\* position map, the index and the persisted files unchanged.
C35_ReadsChangeNothing ==
    [][ReadOnlyCall =>
          /\ bullets' = bullets
          /\ bullet_id_to_index' = bullet_id_to_index
          /\ index' = index
          /\ disk' = disk]_vars

\* C35: a get has returned a bullet that an update_counters call stamped
\* before
C35_GotStampedBullet ==
    /\ obs.op = "get_bullet"
    /\ obs.flag
    /\ ret.op = "update_counters"
    /\ ret.n > 0
    /\ obs.result[1].last_used > 0
    /\ obs.result[1] = bullets[bullet_id_to_index[obs.id] + 1]

\* C35: stats of a store with votes have been taken
C35_StatsTaken ==
    /\ obs.op = "get_stats"
    /\ obs.result[1].total_bullets = Len(bullets)
    /\ Len(bullets) > 1
    /\ obs.result[1].helpful_ratio[1] > 0


\* the places in the search result of process_insights whose bullet has
\* helpful >= harmful
Usable ==
    {i \in 1..Len(obs.neighbours) :
        bullets[obs.neighbours[i] + 1].helpful >= bullets[obs.neighbours[i] + 1].harmful}

\* the search result holds the nearest bullets, at most 5, nearest first
FiveNearest ==
    /\ Len(obs.neighbours) = Min(FindTopK, Len(bullets))
    /\ \A i \in 1..Len(obs.neighbours) : \A j \in 1..Len(obs.neighbours) :
          i < j => ScoreGE(obs.qvec, index[obs.neighbours[i] + 1],
                           index[obs.neighbours[j] + 1])

AtUpdate == InLoop /\ Operation.operation = "UPDATE"

\* what the step of an UPDATE operation leaves alone
UpdateFrame ==
    LET id == Operation.bullet_id
        known == id \in DOMAIN bullet_id_to_index
    IN  /\ Len(bullets') = Len(bullets)
        /\ index' = index
        /\ bullet_id_to_index' = bullet_id_to_index
        /\ \A i \in 1..Len(bullets) :
              IF known /\ i = bullet_id_to_index[id] + 1
              THEN /\ bullets'[i].id = bullets[i].id
                   /\ bullets'[i].content = bullets[i].content
                   /\ bullets'[i].section = bullets[i].section
                   /\ bullets'[i].created_at = bullets[i].created_at
                   /\ bullets'[i].helpful \in {bullets[i].helpful, bullets[i].helpful + 1}
                   /\ bullets'[i].harmful \in {bullets[i].harmful, bullets[i].harmful + 1}
              ELSE bullets'[i] = bullets[i]
        /\ ~known => (bullets' = bullets /\ disk' = disk /\ run'.pc = "merge")

\* every operation of the delta is an UPDATE of an id the store did not
\* hold when the merge began
OnlyUnknownTargets ==
    \A k \in 1..Len(run.delta.operations) :
        /\ run.delta.operations[k].operation = "UPDATE"
        /\ run.delta.operations[k].bullet_id \notin HeldIds(run.base)

\* C37: merging an UPDATE operation changes only the target bullet's
\* helpful/harmful counters and last_used: its id, content, section and
\* created_at, its vector and position in the index, and every other
\* bullet stay as they are, and the content the operation carries is not
\* written to the bullet; an UPDATE of an id the store does not hold
\* changes nothing, and the merge still returns success.
C37_UpdateChangesCountersOnly ==
    /\ []((run.entry = "merge_delta" /\ run.pc = "merged" /\ OnlyUnknownTargets) =>
             (run.success /\ bullets = run.base))
    /\ [][AtUpdate => UpdateFrame]_vars

\* C37: an UPDATE of the first bullet by one helpful and one harmful unit
\* has been merged, and the bullet has the content it had, not the one the
\* operation carried
C37_UpdateMerged ==
    /\ run.entry = "merge_delta"
    /\ run.pc = "merged"
    /\ run.success
    /\ Len(run.delta.operations) = 1
    /\ run.delta.operations[1] = UpdateOperation(1, 1, 1)
    /\ run.base # <<>>
    /\ bullets[1].helpful = run.base[1].helpful + 1
    /\ bullets[1].harmful = run.base[1].harmful + 1
    /\ bullets[1].last_used > run.base[1].last_used
    /\ bullets[1].content = run.base[1].content
    /\ bullets[1].content # run.delta.operations[1].content

\* C37: a delta of one UPDATE of an unknown id, with units to add, has
\* been merged
C37_UnknownTargetMerged ==
    /\ run.entry = "merge_delta"
    /\ run.pc = "merged"
    /\ OnlyUnknownTargets
    /\ Len(run.calls) = 2
    /\ bullets # <<>>
    /\ bullets = run.base


\* a process_feedback call has returned a result built after the merge and
\* the usage step
RanThrough ==
    run.entry = "process_feedback" /\ run.pc = "done" /\ Len(run.steps) = Len(FullPath)

\* the bullets the merge step found (run.base) whose counters it changed by
\* the time the usage step began (run.usage_base)
ChangedByMerge ==
    {i \in 1..Len(run.base) :
        \/ run.usage_base[i].helpful # run.base[i].helpful
        \/ run.usage_base[i].harmful # run.base[i].harmful}

\* C38: the counts in a pipeline result reflect what the merge did to the
\* store: bullets_added is the number of bullets by which the store grew
\* during the merge step and bullets_updated the number of bullets whose
\* counters the merge step changed; a result without a merge step reports
\* 0 and 0.
C38_CountsReflectMerge ==
    /\ RanThrough =>
          /\ run.result.bullets_added = Len(run.usage_base) - Len(run.base)
          /\ run.result.bullets_updated = Cardinality(ChangedByMerge)
    /\ (run.entry = "process_feedback" /\ run.pc = "done" /\ ~run.raised
            /\ Len(run.steps) < Len(FullPath)) =>
          (run.result.bullets_added = 0 /\ run.result.bullets_updated = 0)

\* C38: the counts in a result built after the merge are the numbers of ADD
\* and of UPDATE operations in the delta the Curator returned
C38_CountsFollowDelta ==
    RanThrough =>
        LET ops == run.delta.operations
        IN  /\ run.result.bullets_added
                  = Cardinality({k \in 1..Len(ops) : ops[k].operation = "ADD"})
            /\ run.result.bullets_updated
                  = Cardinality({k \in 1..Len(ops) : ops[k].operation = "UPDATE"})

\* C38: a result reports bullets_updated = 1 after a merge without any
\* failure that changed no counter: the UPDATE carried helpful_increment 0
C38_UpdateReportedNothingChanged ==
    /\ RanThrough
    /\ faults = 0
    /\ run.result.success
    /\ run.result.bullets_updated = 1
    /\ run.delta.operations[1].helpful_increment = 0
    /\ run.usage_base = run.base


\* C39: the pipeline runs started as background tasks on the event loop of
\* the server are serialized: a /chat search returns only between runs,
\* never inside one, and at every point between runs, where another task
\* or handler can observe the store, every bullet id maps to the position
\* of its bullet, a different one for each bullet, with the bullet's
\* vector there.
C39_SerializedInLockstep ==
    /\ obs.op = "retrieve_relevant" => run.pc = "idle"
    /\ run.pc = "idle" => Lockstep(bullets, bullet_id_to_index, index)

\* C39, what does hold: a run starts and a search is made only when no run
\* is under way, the store changes only inside a run, a run under way is
\* left only by its own return, and between runs the lists have the same
\* length, every vector is its bullet's, every id in the map leads to a
\* bullet of that id, and the map is exact unless two bullets share an id
C39_RunsSerialized ==
    /\ [][/\ run'.runs # run.runs => run.pc = "idle"
          /\ (obs'.op = "retrieve_relevant" /\ obs' # obs) => run.pc = "idle"
          /\ store' # store => (run.pc # "idle" /\ run'.feedback_id = run.feedback_id)
          /\ (run.pc # "idle" /\ run'.pc = "idle") => run.pc = "done"]_vars
    /\ [](run.pc = "idle" =>
            /\ ~OutOfStep(bullets, bullet_id_to_index, index)
            /\ DistinctIds(bullets) => Lockstep(bullets, bullet_id_to_index, index))

\* C39: a /chat search made after a run has returned finds a store in
\* which the bullet the run added shares its id with another bullet, so
\* that the map leads to one of the two only
C39_SearchSawSharedId ==
    /\ obs.op = "retrieve_relevant"
    /\ run.pc = "idle"
    /\ run.runs >= 1
    /\ Len(run.logged) = run.runs
    /\ ~DistinctIds(bullets)
    /\ ~Lockstep(bullets, bullet_id_to_index, index)

\* how often a feedback id has been handed to process_feedback by the worker
TimesSubmitted(id) ==
    Cardinality({k \in 1..Len(run.submitted) : run.submitted[k] = id})

\* C40: while the background worker keeps running, every feedback record
\* in the feedback store is eventually handed to process_feedback and
\* recorded in the worker's processed set, and no id is handed over twice.
C40_EveryFeedbackProcessed ==
    \A id \in {"fb-1", "fb-2", "fb-3"} :
        /\ (id \in run.feedback_store) ~>
              (id \in run.processed_feedback /\ TimesSubmitted(id) > 0)
        /\ [](TimesSubmitted(id) <= 1)

\* C40: the worker hands nothing to process_feedback and its processed set
\* stays empty, whatever the feedback store holds
C40_NothingSubmitted ==
    run.submitted = <<>> /\ run.processed_feedback = {}

\* C40: a batch has read a feedback store holding the record fb-1 and has
\* ended without handing it on
C40_BatchSkippedRecord ==
    /\ run.worker_pc = "sleep"
    /\ "fb-1" \in run.all_feedback
    /\ "fb-1" \notin run.processed_feedback
    /\ TimesSubmitted("fb-1") = 0

===========================================================================
